---- MODULE Spec2Model ----
(***************************************************************************)
(* Inquiry CRM backend: role-scoped visibility of inquiries.               *)
(*                                                                         *)
(* The database tables (users, departments, inquiries, follow-up records)  *)
(* are the state; every route handler, together with the service method it *)
(* calls, is one atomic action.  Read-only handlers store what they return *)
(* in resp, so that statements about a response are statements about a     *)
(* state.                                                                  *)
(***************************************************************************)
EXTENDS Integers, Sequences, FiniteSets, TLC

VARIABLES users, departments, inquiries, nextInquiryId, followUps, nextFollowUpId, resp,
          nextUserId, tokens, requests, nextDepartmentId, suspiciousActivities, now,
          aiAnalysisRecords, nextAnalysisId, aiConfig

vars == <<users, departments, inquiries, nextInquiryId, followUps, nextFollowUpId, resp,
          nextUserId, tokens, requests, nextDepartmentId, suspiciousActivities, now,
          aiAnalysisRecords, nextAnalysisId, aiConfig>>

\* the state no handler of inquiries, follow-up records or accounts writes: the department
\* counter, the map and clock of the security middleware, the analysis records and AiService's
\* provider configuration
side == <<nextDepartmentId, suspiciousActivities, now, aiAnalysisRecords, nextAnalysisId, aiConfig>>

(***************************************************************************)
(* Values                                                                  *)
(***************************************************************************)

\* SQL NULL of a nullable integer column (ids start at 1, so NULL is also falsy)
NULL == 0

\* JavaScript undefined of an optional integer parameter (falsy, and # NULL under ===)
UNDEF == 0 - 1

\* Prisma's { not: null } placed in a where slot
NOTNULL == 0 - 2

\* JavaScript truthiness of an integer-or-null-or-undefined value
Truthy(x) == x > 0

\* number of departments
NumDepts == 2

UserIds == {1, 2}

DeptIds == 1..NumDepts

\* ids of the inquiries stored in the scoping specification
ScopeIds == {1, 2}

\* the users whose requests the scoping specification follows
ScopeSubjects == {1}

\* enum UserRole of the schema
Roles == {"admin", "manager", "sales", "customer_service"}

\* a role value outside the closed set, as a string the switch statements do not name
UnknownRole == "intern"

AnyRoles == Roles \cup {UnknownRole}

\* enum InquiryStatus of the schema
InquiryStatuses == {"new", "contacted", "quoted", "negotiating", "won", "lost", "closed"}

\* text columns are sequences of characters; the empty sequence is the falsy empty string
EmptyText == << >>

\* title of the inquiry with a given id (the one text column the model carries)
TitleOf(id) == IF id = 1 THEN <<"a", "b">> ELSE <<"c">>

\* Prisma { contains: s }: s occurs in t as a contiguous substring
Contains(t, s) ==
  \E i \in 1..(Len(t) + 1) : i + Len(s) - 1 <= Len(t) /\ SubSeq(t, i, i + Len(s) - 1) = s

(***************************************************************************)
(* authMiddleware: the subject of a request, rebuilt from the user row     *)
(***************************************************************************)

\* 401 only when the token's user does not exist
authOkAnyStatus(u) == u \in DOMAIN users

\* 401 unless the token's user exists and is active
authOk(u) == u \in DOMAIN users /\ users[u].status = "active"

\* req.user: departmentId is `user.departmentId || undefined`
reqUser(u) ==
  [id |-> u,
   role |-> users[u].role,
   departmentId |-> IF Truthy(users[u].departmentId) THEN users[u].departmentId ELSE UNDEF]

(***************************************************************************)
(* Prisma where objects over inquiries                                     *)
(***************************************************************************)

NoOr == [kind |-> "none", text |-> EmptyText, userId |-> UNDEF]

\* where = {}
EmptyWhere == [OR |-> NoOr, status |-> {}, assignedTo |-> UNDEF, departmentId |-> UNDEF]

\* one slot holding an integer, { not: null }, or nothing
SlotMatches(slot, v) ==
  IF slot = UNDEF THEN TRUE
  ELSE IF slot = NOTNULL THEN v # NULL
  ELSE v = slot

\* the row satisfies every key of the where object (keys are ANDed by Prisma)
Matches(where, row) ==
  /\ CASE where.OR.kind = "search" -> Contains(row.title, where.OR.text)
       [] where.OR.kind = "owner" ->
            row.assignedTo = where.OR.userId \/ row.createdBy = where.OR.userId
       [] OTHER -> TRUE
  /\ (where.status = {} \/ row.status \in where.status)
  /\ SlotMatches(where.assignedTo, row.assignedTo)
  /\ SlotMatches(where.departmentId, row.departmentId)

\* ids of the rows a findMany / count / groupBy with this where object reads
Select(where) == {id \in DOMAIN inquiries : Matches(where, inquiries[id])}

(***************************************************************************)
(* InquiryService.getInquiryList                                           *)
(***************************************************************************)

\* the role switch with a sales branch that ANDs nothing onto the query
ListScopeSalesOpen(w, userId, userRole, userDepartmentId) ==
  IF userRole # "" /\ Truthy(userId)
  THEN CASE userRole = "manager" ->
              IF Truthy(userDepartmentId) THEN [w EXCEPT !.departmentId = userDepartmentId] ELSE w
         [] userRole \in {"admin", "sales"} -> w
         [] OTHER -> [w EXCEPT !.assignedTo = userId]
  ELSE w

\* the role switch with a default branch that also admits the creator
ListScopeDefaultOwner(w, userId, userRole, userDepartmentId) ==
  IF userRole # "" /\ Truthy(userId)
  THEN CASE userRole = "manager" ->
              IF Truthy(userDepartmentId) THEN [w EXCEPT !.departmentId = userDepartmentId] ELSE w
         [] userRole = "admin" -> w
         [] OTHER -> [w EXCEPT !.OR = [kind |-> "owner", text |-> EmptyText, userId |-> userId]]
  ELSE w

\* the data-permission switch: each branch assigns a key of the where object
ListScope(w, userId, userRole, userDepartmentId) ==
  IF userRole # "" /\ Truthy(userId)
  THEN CASE userRole = "sales" ->
              [w EXCEPT !.OR = [kind |-> "owner", text |-> EmptyText, userId |-> userId]]
         [] userRole = "manager" ->
              IF Truthy(userDepartmentId) THEN [w EXCEPT !.departmentId = userDepartmentId] ELSE w
         [] userRole = "admin" -> w
         [] OTHER -> [w EXCEPT !.assignedTo = userId]
  ELSE w

\* the caller's filters, each assigned to its key when the parameter is truthy
ListFilters(p) ==
  LET w1 == IF p.search # EmptyText
            THEN [EmptyWhere EXCEPT !.OR = [kind |-> "search", text |-> p.search, userId |-> UNDEF]]
            ELSE EmptyWhere
      w2 == IF p.status # "" THEN [w1 EXCEPT !.status = {p.status}] ELSE w1
      w3 == IF Truthy(p.assignedTo) THEN [w2 EXCEPT !.assignedTo = p.assignedTo] ELSE w2
  IN IF Truthy(p.departmentId) THEN [w3 EXCEPT !.departmentId = p.departmentId] ELSE w3

\* the where object getInquiryList hands to findMany and count
ListWhere(p) == ListScope(ListFilters(p), p.userId, p.userRole, p.userDepartmentId)

getInquiryList(p) == Select(ListWhere(p))

\* no caller filter at all
NoQuery == [search |-> EmptyText, status |-> "", assignedTo |-> UNDEF, departmentId |-> UNDEF,
            userId |-> UNDEF]

\* router.get('/'): the parameters the route passes for subject u and query q
ListParams(u, q) ==
  [search |-> q.search, status |-> q.status, assignedTo |-> q.assignedTo,
   departmentId |-> q.departmentId,
   userId |-> reqUser(u).id, userRole |-> reqUser(u).role,
   userDepartmentId |-> reqUser(u).departmentId]

(***************************************************************************)
(* InquiryService.checkInquiryAccess                                       *)
(***************************************************************************)

\* the sales branch without the creator fallback
checkAccessSalesAssignedOnly(inquiry, userId, userRole) ==
  CASE userRole = "admin" -> TRUE
    [] userRole = "manager" ->
         inquiry.departmentId =
           (IF userId \in DOMAIN users THEN users[userId].departmentId ELSE UNDEF)
    [] OTHER -> inquiry.assignedTo = userId

\* the manager branch admitting what the manager is assigned as well
checkAccessManagerAssigned(inquiry, userId, userRole) ==
  CASE userRole = "admin" -> TRUE
    [] userRole = "manager" ->
         \/ inquiry.departmentId =
              (IF userId \in DOMAIN users THEN users[userId].departmentId ELSE UNDEF)
         \/ inquiry.assignedTo = userId
    [] userRole = "sales" -> inquiry.assignedTo = userId \/ inquiry.createdBy = userId
    [] OTHER -> inquiry.assignedTo = userId

\* the admin branch consulting the assignee
checkAccessAdminAssigned(inquiry, userId, userRole) ==
  CASE userRole = "manager" ->
         inquiry.departmentId =
           (IF userId \in DOMAIN users THEN users[userId].departmentId ELSE UNDEF)
    [] userRole = "sales" -> inquiry.assignedTo = userId \/ inquiry.createdBy = userId
    [] OTHER -> inquiry.assignedTo = userId

\* the manager branch re-reads the user's departmentId (user?.departmentId)
checkInquiryAccess(inquiry, userId, userRole) ==
  CASE userRole = "admin" -> TRUE
    [] userRole = "manager" ->
         inquiry.departmentId =
           (IF userId \in DOMAIN users THEN users[userId].departmentId ELSE UNDEF)
    [] userRole = "sales" -> inquiry.assignedTo = userId \/ inquiry.createdBy = userId
    [] OTHER -> inquiry.assignedTo = userId

(***************************************************************************)
(* checkDataPermission middleware                                          *)
(***************************************************************************)

\* status the middleware ends with: 200 for next(), else the status of the AppError;
\* user is req.user, resourceType the path segment the switch looks at
checkDataPermission(user, resourceType, resourceId) ==
  IF user.role = "admin" THEN 200
  ELSE IF resourceType # "inquiries" THEN 200
  ELSE IF resourceId \notin DOMAIN inquiries THEN 404
  ELSE IF user.role = "manager" /\ inquiries[resourceId].departmentId = user.departmentId THEN 200
  ELSE IF user.role = "sales" /\ (\/ inquiries[resourceId].assignedTo = user.id
                                  \/ inquiries[resourceId].createdBy = user.id) THEN 200
  ELSE 403

(***************************************************************************)
(* StatisticsService: every figure is modelled by the set of inquiries it  *)
(* counts or sums (all inquiries lie inside the queried date window)       *)
(***************************************************************************)

\* the switch assigns a key of the where object per role; without a role only departmentId
buildWhereCondition(departmentId, userId, userRole) ==
  IF userRole # "" /\ Truthy(userId)
  THEN CASE userRole = "sales" ->
              [EmptyWhere EXCEPT !.OR = [kind |-> "owner", text |-> EmptyText, userId |-> userId]]
         [] userRole \in {"manager", "admin"} ->
              IF Truthy(departmentId) THEN [EmptyWhere EXCEPT !.departmentId = departmentId]
              ELSE EmptyWhere
         [] OTHER -> [EmptyWhere EXCEPT !.assignedTo = userId]
  ELSE IF Truthy(departmentId) THEN [EmptyWhere EXCEPT !.departmentId = departmentId]
  ELSE EmptyWhere

\* raw SQL over the inquiries table: the where argument is not part of the query
getDailyTrend(where) == DOMAIN inquiries

\* raw SQL over the inquiries table: the where argument is not part of the query
getMonthlyTrend(where) == DOMAIN inquiries

\* groupBy assignedTo; buildWhereCondition is called without the role
getUserPerformance(p) ==
  Select([buildWhereCondition(p.departmentId, p.userId, "") EXCEPT !.assignedTo = NOTNULL])

NoFigures ==
  [totalInquiries |-> {}, newInquiries |-> {}, closedInquiries |-> {}, inquiriesByStatus |-> {},
   inquiriesByDepartment |-> {}, inquiriesByAssignee |-> {}, dailyTrend |-> {},
   monthlyTrend |-> {}, recentInquiries |-> {}, topPerformers |-> {}, inquiryTrend |-> {},
   statusDistribution |-> {}]

\* { ...where, key: value } replaces the key the where object already has
getInquiryStatistics(p) ==
  LET where == buildWhereCondition(p.departmentId, p.userId, p.userRole)
  IN [NoFigures EXCEPT
        !.totalInquiries = Select(where),
        !.newInquiries = Select([where EXCEPT !.status = {"new"}]),
        !.closedInquiries = Select([where EXCEPT !.status = {"won", "lost", "closed"}]),
        !.inquiriesByStatus = Select(where),
        !.inquiriesByDepartment = Select([where EXCEPT !.departmentId = NOTNULL]),
        !.inquiriesByAssignee = Select([where EXCEPT !.assignedTo = NOTNULL]),
        !.dailyTrend = getDailyTrend(where),
        !.monthlyTrend = getMonthlyTrend(where)]

getDashboardData(p) ==
  LET where == buildWhereCondition(p.departmentId, p.userId, p.userRole)
  IN [NoFigures EXCEPT
        !.totalInquiries = Select(where),
        !.newInquiries = Select([where EXCEPT !.status = {"new"}]),
        !.closedInquiries = Select([where EXCEPT !.status = {"won", "closed"}]),
        !.recentInquiries = Select(where),
        !.topPerformers = getUserPerformance(p),
        !.inquiryTrend = getDailyTrend(where),
        !.statusDistribution = Select(where)]

\* statistics router.get('/dashboard'): the department of the query wins over the subject's
DashboardParams(u, q) ==
  [departmentId |-> IF Truthy(q.departmentId) THEN q.departmentId ELSE reqUser(u).departmentId,
   userId |-> reqUser(u).id,
   userRole |-> reqUser(u).role]

\* statistics router.get('/inquiries'): target user and department by role
StatisticsParams(u, q) ==
  LET cur == reqUser(u)
      target == IF q.userId \in DOMAIN users THEN users[q.userId].departmentId ELSE UNDEF
  IN CASE cur.role = "admin" ->
            [departmentId |-> IF Truthy(q.departmentId) THEN q.departmentId ELSE UNDEF,
             userId |-> IF Truthy(q.userId) THEN q.userId ELSE UNDEF,
             userRole |-> cur.role]
       [] cur.role = "manager" ->
            [departmentId |-> cur.departmentId,
             userId |-> IF Truthy(q.userId) /\ target = cur.departmentId THEN q.userId ELSE UNDEF,
             userRole |-> cur.role]
       [] OTHER ->
            [departmentId |-> UNDEF, userId |-> cur.id, userRole |-> cur.role]

(***************************************************************************)
(* Responses                                                               *)
(***************************************************************************)

NoResp ==
  [op |-> "none", user |-> NULL, id |-> NULL, code |-> NULL, query |-> NoQuery,
   result |-> {}, figures |-> NoFigures]

Respond(op, u, id, code) == [NoResp EXCEPT !.op = op, !.user = u, !.id = id, !.code = code]

db == <<users, departments, inquiries, nextInquiryId, followUps, nextFollowUpId,
        nextUserId, tokens, requests, side>>

(***************************************************************************)
(* Read-only handlers                                                      *)
(***************************************************************************)

\* GET /api/inquiries
GetInquiryList(u, q) ==
  /\ resp' = IF ~authOk(u) THEN Respond("getInquiryList", u, NULL, 401)
             ELSE [Respond("getInquiryList", u, NULL, 200) EXCEPT
                     !.query = q, !.result = getInquiryList(ListParams(u, q))]
  /\ UNCHANGED db

\* the handler answering a denied subject as if the inquiry did not exist
GetInquiryByIdHidden(u, id) ==
  /\ resp' = IF ~authOk(u) THEN Respond("getInquiryById", u, id, 401)
             ELSE IF id \notin DOMAIN inquiries THEN Respond("getInquiryById", u, id, 404)
             ELSE IF ~checkInquiryAccess(inquiries[id], reqUser(u).id, reqUser(u).role)
             THEN Respond("getInquiryById", u, id, 404)
             ELSE [Respond("getInquiryById", u, id, 200) EXCEPT !.result = {id}]
  /\ UNCHANGED db

\* GET /api/inquiries/:id -> getInquiryById: existence first, then the point decision
GetInquiryById(u, id) ==
  /\ resp' = IF ~authOk(u) THEN Respond("getInquiryById", u, id, 401)
             ELSE IF id \notin DOMAIN inquiries THEN Respond("getInquiryById", u, id, 404)
             ELSE IF ~checkInquiryAccess(inquiries[id], reqUser(u).id, reqUser(u).role)
             THEN Respond("getInquiryById", u, id, 403)
             ELSE [Respond("getInquiryById", u, id, 200) EXCEPT !.result = {id}]
  /\ UNCHANGED db

\* GET /api/statistics/inquiries
GetInquiryStatistics(u, q) ==
  /\ resp' = IF ~authOk(u) THEN Respond("getInquiryStatistics", u, NULL, 401)
             ELSE [Respond("getInquiryStatistics", u, NULL, 200) EXCEPT
                     !.query = q, !.figures = getInquiryStatistics(StatisticsParams(u, q))]
  /\ UNCHANGED db

\* GET /api/statistics/dashboard
GetDashboardData(u, q) ==
  /\ resp' = IF ~authOk(u) THEN Respond("getDashboardData", u, NULL, 401)
             ELSE [Respond("getDashboardData", u, NULL, 200) EXCEPT
                     !.query = q, !.figures = getDashboardData(DashboardParams(u, q))]
  /\ UNCHANGED db

\* a route guarded by authMiddleware and checkDataPermission, up to the handler
CheckDataPermission(u, resourceType, id) ==
  /\ resp' = IF ~authOk(u) THEN Respond("checkDataPermission", u, id, 401)
             ELSE Respond("checkDataPermission", u, id,
                          checkDataPermission(reqUser(u), resourceType, id))
  /\ UNCHANGED db

(***************************************************************************)
(* Table helpers                                                           *)
(***************************************************************************)

\* ownership columns of one inquiry row
InquiryRow(id, assignedTo, createdBy, departmentId, status) ==
  [title |-> TitleOf(id), status |-> status, assignedTo |-> assignedTo,
   createdBy |-> createdBy, departmentId |-> departmentId]

UserRow(role, departmentId) ==
  [role |-> role, departmentId |-> departmentId, status |-> "active", fullName |-> "a"]

\* department 1 is the root, department d + 1 a child of department d
DepartmentTree == [d \in DeptIds |-> [parentId |-> d - 1]]

\* the table without the rows whose key is in ks
Without(table, ks) == [k \in DOMAIN table \ ks |-> table[k]]

\* the table with one more row
WithRow(table, k, row) == [x \in DOMAIN table \cup {k} |-> IF x = k THEN row ELSE table[x]]

\* an optional column of an insert: undefined is stored as NULL
OrNull(x) == IF x = UNDEF THEN NULL ELSE x

\* elements of an array
Range(seq) == {seq[i] : i \in DOMAIN seq}

(***************************************************************************)
(* InquiryService: create, update, delete, batch                           *)
(***************************************************************************)

\* highest id the autoincrement column of inquiries hands out
MaxInquiryId == 2

\* POST /api/inquiries -> createInquiry: createdBy is the subject
CreateInquiry(u, assignedTo, departmentId) ==
  /\ nextInquiryId <= MaxInquiryId
  /\ IF ~authOk(u) THEN
       /\ resp' = Respond("createInquiry", u, NULL, 401)
       /\ UNCHANGED db
     ELSE IF Truthy(assignedTo) /\ assignedTo \notin DOMAIN users THEN
       /\ resp' = Respond("createInquiry", u, NULL, 400)
       /\ UNCHANGED db
     ELSE IF Truthy(departmentId) /\ departmentId \notin DOMAIN departments THEN
       /\ resp' = Respond("createInquiry", u, NULL, 400)
       /\ UNCHANGED db
     ELSE
       /\ inquiries' = WithRow(inquiries, nextInquiryId,
                         InquiryRow(nextInquiryId, OrNull(assignedTo), reqUser(u).id,
                                    OrNull(departmentId), "new"))
       /\ nextInquiryId' = nextInquiryId + 1
       /\ resp' = Respond("createInquiry", u, nextInquiryId, 201)
       /\ UNCHANGED <<users, departments, followUps, nextFollowUpId, nextUserId, tokens, requests, side>>

\* the data object with the creator of the request body spread into it
UpdatedRowWithCreator(row, data) ==
  [row EXCEPT
     !.assignedTo = IF data.assignedTo # UNDEF THEN data.assignedTo ELSE @,
     !.departmentId = IF data.departmentId # UNDEF THEN data.departmentId ELSE @,
     !.status = IF data.status # "" THEN data.status ELSE @,
     !.createdBy = IF data.createdBy # UNDEF THEN data.createdBy ELSE @]

\* the data object of prisma.inquiry.update: a key is written only if its guard passes
UpdatedRow(row, data) ==
  [row EXCEPT
     !.assignedTo = IF data.assignedTo # UNDEF THEN data.assignedTo ELSE @,
     !.departmentId = IF data.departmentId # UNDEF THEN data.departmentId ELSE @,
     !.status = IF data.status # "" THEN data.status ELSE @]

\* PUT /api/inquiries/:id -> updateInquiry: existence, point decision, references, write
UpdateInquiry(u, id, data) ==
  IF ~authOk(u) THEN
    /\ resp' = Respond("updateInquiry", u, id, 401)
    /\ UNCHANGED db
  ELSE IF id \notin DOMAIN inquiries THEN
    /\ resp' = Respond("updateInquiry", u, id, 404)
    /\ UNCHANGED db
  ELSE IF ~checkInquiryAccess(inquiries[id], reqUser(u).id, reqUser(u).role) THEN
    /\ resp' = Respond("updateInquiry", u, id, 403)
    /\ UNCHANGED db
  ELSE IF \/ Truthy(data.assignedTo) /\ data.assignedTo \notin DOMAIN users
          \/ Truthy(data.departmentId) /\ data.departmentId \notin DOMAIN departments THEN
    /\ resp' = Respond("updateInquiry", u, id, 400)
    /\ UNCHANGED db
  ELSE
    /\ inquiries' = [inquiries EXCEPT ![id] = UpdatedRow(@, data)]
    /\ resp' = Respond("updateInquiry", u, id, 200)
    /\ UNCHANGED <<users, departments, nextInquiryId, followUps, nextFollowUpId,
                   nextUserId, tokens, requests, side>>

\* follow-up records go with their inquiry (onDelete: Cascade)
CascadeFollowUps(ids) == Without(followUps, {f \in DOMAIN followUps : followUps[f].inquiryId \in ids})

\* DELETE /api/inquiries/:id -> deleteInquiry
DeleteInquiry(u, id) ==
  IF ~authOk(u) THEN
    /\ resp' = Respond("deleteInquiry", u, id, 401)
    /\ UNCHANGED db
  ELSE IF id \notin DOMAIN inquiries THEN
    /\ resp' = Respond("deleteInquiry", u, id, 404)
    /\ UNCHANGED db
  ELSE IF ~checkInquiryAccess(inquiries[id], reqUser(u).id, reqUser(u).role) THEN
    /\ resp' = Respond("deleteInquiry", u, id, 403)
    /\ UNCHANGED db
  ELSE
    /\ inquiries' = Without(inquiries, {id})
    /\ followUps' = CascadeFollowUps({id})
    /\ resp' = Respond("deleteInquiry", u, id, 200)
    /\ UNCHANGED <<users, departments, nextInquiryId, nextFollowUpId, nextUserId, tokens, requests, side>>

\* the rows after the switch on action; data keys that are undefined write nothing
BatchApplied(ids, action, data) ==
  CASE action = "assign" ->
         [id \in DOMAIN inquiries |->
            IF id \in ids /\ data.assignedTo # UNDEF
            THEN [inquiries[id] EXCEPT !.assignedTo = data.assignedTo] ELSE inquiries[id]]
    [] action = "updateStatus" ->
         [id \in DOMAIN inquiries |->
            IF id \in ids /\ data.status # ""
            THEN [inquiries[id] EXCEPT !.status = data.status] ELSE inquiries[id]]
    [] OTHER -> Without(inquiries, ids)

\* the batch applied to the inquiries the subject may access before the refusal
BatchUpdateInquiriesPartial(u, ids, action, data) ==
  LET found == Range(ids) \cap DOMAIN inquiries
      allowed == {id \in found :
                    checkInquiryAccess(inquiries[id], reqUser(u).id, reqUser(u).role)}
  IN IF ~authOk(u) THEN
       /\ resp' = Respond("batchUpdateInquiries", u, NULL, 401)
       /\ UNCHANGED db
     ELSE IF action \notin {"assign", "updateStatus", "delete"} THEN
       /\ resp' = Respond("batchUpdateInquiries", u, NULL, 400)
       /\ UNCHANGED db
     ELSE IF Cardinality(found) # Len(ids) THEN
       /\ resp' = Respond("batchUpdateInquiries", u, NULL, 400)
       /\ UNCHANGED db
     ELSE
       /\ inquiries' = BatchApplied(allowed, action, data)
       /\ followUps' = IF action = "delete" THEN CascadeFollowUps(allowed) ELSE followUps
       /\ resp' = [Respond("batchUpdateInquiries", u, NULL,
                           IF allowed = found THEN 200 ELSE 403) EXCEPT !.result = allowed]
       /\ UNCHANGED <<users, departments, nextInquiryId, nextFollowUpId,
                      nextUserId, tokens, requests, side>>

\* PATCH /api/inquiries/batch -> batchUpdateInquiries; ids is the array of the request
BatchUpdateInquiries(u, ids, action, data) ==
  LET found == Range(ids) \cap DOMAIN inquiries
  IN IF ~authOk(u) THEN
       /\ resp' = Respond("batchUpdateInquiries", u, NULL, 401)
       /\ UNCHANGED db
     ELSE IF action \notin {"assign", "updateStatus", "delete"} THEN
       /\ resp' = Respond("batchUpdateInquiries", u, NULL, 400)
       /\ UNCHANGED db
     ELSE IF Cardinality(found) # Len(ids) THEN
       /\ resp' = Respond("batchUpdateInquiries", u, NULL, 400)
       /\ UNCHANGED db
     ELSE IF \E id \in found :
               ~checkInquiryAccess(inquiries[id], reqUser(u).id, reqUser(u).role) THEN
       /\ resp' = Respond("batchUpdateInquiries", u, NULL, 403)
       /\ UNCHANGED db
     ELSE IF action = "assign" /\ Truthy(data.assignedTo)
               /\ data.assignedTo \notin DOMAIN users THEN
       /\ resp' = Respond("batchUpdateInquiries", u, NULL, 500)
       /\ UNCHANGED db
     ELSE
       /\ inquiries' = BatchApplied(found, action, data)
       /\ followUps' = IF action = "delete" THEN CascadeFollowUps(found) ELSE followUps
       /\ resp' = [Respond("batchUpdateInquiries", u, NULL, 200) EXCEPT !.result = found]
       /\ UNCHANGED <<users, departments, nextInquiryId, nextFollowUpId,
                      nextUserId, tokens, requests, side>>

(***************************************************************************)
(* State outside the inquiry tables                                        *)
(***************************************************************************)

\* the providers of AiService.aiConfig
AiProviders == {"openai", "deepseek"}

\* the API key the environment configures for every provider
EnvKey == "env"

\* the department counter after the seeded departments, nobody recorded by the security
\* middleware, no analysis stored, the provider keys of the environment
InitSide ==
  /\ nextDepartmentId = NumDepts + 1
  /\ suspiciousActivities = << >>
  /\ now = 0
  /\ aiAnalysisRecords = << >>
  /\ nextAnalysisId = 1
  /\ aiConfig = [p \in AiProviders |-> [apiKey |-> EnvKey]]

(***************************************************************************)
(* DepartmentService behind requireAdmin: create, update, delete           *)
(***************************************************************************)

\* highest id the autoincrement column of departments hands out
MaxDepartmentId == 3

\* names of departments
DepartmentNames == {"north", "south"}

\* the seeded departments with their names
NamedDepartmentTree ==
  [d \in DeptIds |-> [parentId |-> d - 1, name |-> IF d = 1 THEN "north" ELSE "south"]]

\* the walk of checkCircularReference does not look for the department at all
checkCircularReferenceNever(departmentId, parentId) == FALSE

\* walks up from parentId until the root: TRUE when departmentId is on the way
RECURSIVE checkCircularReference(_, _)
checkCircularReference(departmentId, parentId) ==
  IF ~Truthy(parentId) THEN FALSE
  ELSE IF parentId = departmentId THEN TRUE
  ELSE IF parentId \notin DOMAIN departments THEN FALSE
  ELSE checkCircularReference(departmentId, departments[parentId].parentId)

\* requireAdmin in front of the department routes; 200 lets the request through
requireAdmin(u) == IF ~authOk(u) THEN 401 ELSE IF reqUser(u).role # "admin" THEN 403 ELSE 200

\* POST /api/departments -> createDepartment (the body carries name and parentId)
CreateDepartment(a, name, parentId) ==
  /\ nextDepartmentId <= MaxDepartmentId
  /\ IF requireAdmin(a) # 200 THEN
       /\ resp' = Respond("createDepartment", a, NULL, requireAdmin(a))
       /\ UNCHANGED db
     ELSE IF \E d \in DOMAIN departments :
               /\ departments[d].name = name
               /\ parentId # UNDEF => departments[d].parentId = parentId THEN
       /\ resp' = Respond("createDepartment", a, NULL, 409)
       /\ UNCHANGED db
     ELSE IF Truthy(parentId) /\ parentId \notin DOMAIN departments THEN
       /\ resp' = Respond("createDepartment", a, NULL, 400)
       /\ UNCHANGED db
     ELSE
       /\ departments' = WithRow(departments, nextDepartmentId,
                           [parentId |-> OrNull(parentId), name |-> name])
       /\ nextDepartmentId' = nextDepartmentId + 1
       /\ resp' = Respond("createDepartment", a, nextDepartmentId, 201)
       /\ UNCHANGED <<users, inquiries, nextInquiryId, followUps, nextFollowUpId, nextUserId,
                      tokens, requests, suspiciousActivities, now, aiAnalysisRecords,
                      nextAnalysisId, aiConfig>>

\* PUT /api/departments/:id -> updateDepartment (the body carries name and parentId, "" and
\* UNDEF when absent): existence, sibling name, own id, parent, circular reference, write
UpdateDepartment(a, id, name, parentId) ==
  IF requireAdmin(a) # 200 THEN
    /\ resp' = Respond("updateDepartment", a, id, requireAdmin(a))
    /\ UNCHANGED db
  ELSE IF id \notin DOMAIN departments THEN
    /\ resp' = Respond("updateDepartment", a, id, 404)
    /\ UNCHANGED db
  ELSE IF /\ name # "" /\ name # departments[id].name
          /\ \E d \in DOMAIN departments \ {id} :
               /\ departments[d].name = name
               /\ departments[d].parentId =
                    IF parentId # UNDEF THEN parentId ELSE departments[id].parentId THEN
    /\ resp' = Respond("updateDepartment", a, id, 409)
    /\ UNCHANGED db
  ELSE IF parentId # UNDEF /\ parentId = id THEN
    /\ resp' = Respond("updateDepartment", a, id, 400)
    /\ UNCHANGED db
  ELSE IF Truthy(parentId) /\ parentId \notin DOMAIN departments THEN
    /\ resp' = Respond("updateDepartment", a, id, 400)
    /\ UNCHANGED db
  ELSE IF Truthy(parentId) /\ checkCircularReference(id, parentId) THEN
    /\ resp' = Respond("updateDepartment", a, id, 400)
    /\ UNCHANGED db
  ELSE
    /\ departments' = [departments EXCEPT
                         ![id].name = IF name # "" THEN name ELSE @,
                         ![id].parentId = IF parentId # UNDEF THEN parentId ELSE @]
    /\ resp' = Respond("updateDepartment", a, id, 200)
    /\ UNCHANGED <<users, inquiries, nextInquiryId, followUps, nextFollowUpId, nextUserId,
                   tokens, requests, side>>

\* DELETE /api/departments/:id -> deleteDepartment: no children, no users; the inquiries of
\* the department lose their department (optional relation)
DeleteDepartment(a, id) ==
  IF requireAdmin(a) # 200 THEN
    /\ resp' = Respond("deleteDepartment", a, id, requireAdmin(a))
    /\ UNCHANGED db
  ELSE IF id \notin DOMAIN departments THEN
    /\ resp' = Respond("deleteDepartment", a, id, 404)
    /\ UNCHANGED db
  ELSE IF \/ \E d \in DOMAIN departments : departments[d].parentId = id
          \/ \E u \in DOMAIN users : users[u].departmentId = id THEN
    /\ resp' = Respond("deleteDepartment", a, id, 400)
    /\ UNCHANGED db
  ELSE
    /\ departments' = Without(departments, {id})
    /\ inquiries' = [i \in DOMAIN inquiries |->
                       IF inquiries[i].departmentId = id
                       THEN [inquiries[i] EXCEPT !.departmentId = NULL] ELSE inquiries[i]]
    /\ resp' = Respond("deleteDepartment", a, id, 200)
    /\ UNCHANGED <<users, nextInquiryId, followUps, nextFollowUpId, nextUserId, tokens,
                   requests, side>>

(***************************************************************************)
(* Security middleware: suspiciousActivities and the clock, in half hours  *)
(***************************************************************************)

\* last reading of Date.now() the model follows
MaxClock == 50

\* attempts from which a key is blocked
BlockThreshold == 10

\* blockDuration, one hour
BlockDuration == 2

\* cleanupThreshold, 24 hours
CleanupThreshold == 48

\* the keys `${clientIP}:${userAgent}` of the clients
ClientKeys == {1}

\* updateSuspiciousActivity blocking only after the threshold is passed
updateSuspiciousActivityLate(key) ==
  LET activity == IF key \in DOMAIN suspiciousActivities THEN suspiciousActivities[key]
                  ELSE [attempts |-> 0, lastAttempt |-> now, blocked |-> FALSE]
      attempts == activity.attempts + 1
  IN WithRow(suspiciousActivities, key,
             [attempts |-> attempts, lastAttempt |-> now,
              blocked |-> activity.blocked \/ attempts > BlockThreshold])

\* updateSuspiciousActivity: the map after one more attempt of the key is recorded
updateSuspiciousActivity(key) ==
  LET activity == IF key \in DOMAIN suspiciousActivities THEN suspiciousActivities[key]
                  ELSE [attempts |-> 0, lastAttempt |-> now, blocked |-> FALSE]
      attempts == activity.attempts + 1
  IN WithRow(suspiciousActivities, key,
             [attempts |-> attempts, lastAttempt |-> now,
              blocked |-> activity.blocked \/ attempts >= BlockThreshold])

\* suspiciousActivityMiddleware on a request of the key; isSuspicious is what
\* detectSuspiciousPatterns answers; code 200 stands for next()
SuspiciousActivityMiddleware(key, isSuspicious) ==
  LET blockedNow == /\ key \in DOMAIN suspiciousActivities
                    /\ suspiciousActivities[key].blocked
  IN IF blockedNow /\ now - suspiciousActivities[key].lastAttempt < BlockDuration THEN
       /\ resp' = Respond("suspiciousActivity", NULL, key, 403)
       /\ UNCHANGED <<db, now>>
     ELSE
       /\ suspiciousActivities' =
            IF isSuspicious
            THEN IF blockedNow
                 THEN WithRow(Without(suspiciousActivities, {key}), key,
                              [attempts |-> 1, lastAttempt |-> now, blocked |-> FALSE])
                 ELSE updateSuspiciousActivity(key)
            ELSE IF blockedNow THEN Without(suspiciousActivities, {key})
            ELSE suspiciousActivities
       /\ resp' = Respond("suspiciousActivity", NULL, key, 200)
       /\ UNCHANGED <<users, departments, inquiries, nextInquiryId, followUps, nextFollowUpId,
                      nextUserId, tokens, requests, nextDepartmentId, now, aiAnalysisRecords,
                      nextAnalysisId, aiConfig>>

\* cleanupSuspiciousActivities, run by setInterval
CleanupSuspiciousActivities ==
  /\ suspiciousActivities' =
       Without(suspiciousActivities,
               {k \in DOMAIN suspiciousActivities :
                  now - suspiciousActivities[k].lastAttempt > CleanupThreshold})
  /\ UNCHANGED <<users, departments, inquiries, nextInquiryId, followUps, nextFollowUpId, resp,
                 nextUserId, tokens, requests, nextDepartmentId, now, aiAnalysisRecords,
                 nextAnalysisId, aiConfig>>

\* half an hour passes
Tick ==
  /\ now < MaxClock
  /\ now' = now + 1
  /\ UNCHANGED <<users, departments, inquiries, nextInquiryId, followUps, nextFollowUpId, resp,
                 nextUserId, tokens, requests, nextDepartmentId, suspiciousActivities,
                 aiAnalysisRecords, nextAnalysisId, aiConfig>>

(***************************************************************************)
(* UserService.updateUser behind requireAdmin                              *)
(***************************************************************************)

\* PUT /api/users/:id
UpdateUser(a, t, role, departmentId) ==
  IF ~authOk(a) THEN
    /\ resp' = Respond("updateUser", a, t, 401)
    /\ UNCHANGED db
  ELSE IF reqUser(a).role # "admin" THEN
    /\ resp' = Respond("updateUser", a, t, 403)
    /\ UNCHANGED db
  ELSE IF t \notin DOMAIN users THEN
    /\ resp' = Respond("updateUser", a, t, 404)
    /\ UNCHANGED db
  ELSE IF Truthy(departmentId) /\ departmentId \notin DOMAIN departments THEN
    /\ resp' = Respond("updateUser", a, t, 400)
    /\ UNCHANGED db
  ELSE
    /\ users' = [users EXCEPT
                   ![t].role = IF role # "" THEN role ELSE @,
                   ![t].departmentId = IF departmentId # UNDEF THEN departmentId ELSE @]
    /\ resp' = Respond("updateUser", a, t, 200)
    /\ UNCHANGED <<departments, inquiries, nextInquiryId, followUps, nextFollowUpId,
                   nextUserId, tokens, requests, side>>

\* PUT /api/users/:id with a body that carries status only
UpdateUserStatus(a, t, status) ==
  IF requireAdmin(a) # 200 THEN
    /\ resp' = Respond("updateUser", a, t, requireAdmin(a))
    /\ UNCHANGED db
  ELSE IF t \notin DOMAIN users THEN
    /\ resp' = Respond("updateUser", a, t, 404)
    /\ UNCHANGED db
  ELSE
    /\ users' = [users EXCEPT ![t].status = IF status # "" THEN status ELSE @]
    /\ resp' = Respond("updateUser", a, t, 200)
    /\ UNCHANGED <<departments, inquiries, nextInquiryId, followUps, nextFollowUpId,
                   nextUserId, tokens, requests, side>>

(***************************************************************************)
(* UserService.deleteUser behind requireAdmin                              *)
(***************************************************************************)

\* DELETE /api/users/:id with the count of the user's inquiries left out
DeleteUserUncounted(a, t) ==
  IF requireAdmin(a) # 200 THEN
    /\ resp' = Respond("deleteUser", a, t, requireAdmin(a))
    /\ UNCHANGED db
  ELSE IF t \notin DOMAIN users THEN
    /\ resp' = Respond("deleteUser", a, t, 404)
    /\ UNCHANGED db
  ELSE
    /\ users' = Without(users, {t})
    /\ resp' = Respond("deleteUser", a, t, 200)
    /\ UNCHANGED <<departments, inquiries, nextInquiryId, followUps, nextFollowUpId,
                   nextUserId, tokens, requests, side>>

\* DELETE /api/users/:id -> deleteUser: the user must have no inquiry; the records that
\* require their creator (follow-ups, analyses) make the database refuse the delete
DeleteUser(a, t) ==
  IF requireAdmin(a) # 200 THEN
    /\ resp' = Respond("deleteUser", a, t, requireAdmin(a))
    /\ UNCHANGED db
  ELSE IF t \notin DOMAIN users THEN
    /\ resp' = Respond("deleteUser", a, t, 404)
    /\ UNCHANGED db
  ELSE IF \E id \in DOMAIN inquiries :
            inquiries[id].assignedTo = t \/ inquiries[id].createdBy = t THEN
    /\ resp' = Respond("deleteUser", a, t, 400)
    /\ UNCHANGED db
  ELSE IF \/ \E f \in DOMAIN followUps : followUps[f].createdBy = t
          \/ \E r \in DOMAIN aiAnalysisRecords : aiAnalysisRecords[r].createdBy = t THEN
    /\ resp' = Respond("deleteUser", a, t, 500)
    /\ UNCHANGED db
  ELSE
    /\ users' = Without(users, {t})
    /\ resp' = Respond("deleteUser", a, t, 200)
    /\ UNCHANGED <<departments, inquiries, nextInquiryId, followUps, nextFollowUpId,
                   nextUserId, tokens, requests, side>>

(***************************************************************************)
(* Accounts: login, register, profile, and requests that carry a token     *)
(***************************************************************************)

\* most tokens logins hand out
MaxTokens == 2

\* highest id the autoincrement column of users hands out
MaxUserId == 3

\* payload of the JWT that login and register sign
TokenFor(u) == [userId |-> u, role |-> users[u].role]

\* POST /api/auth/login -> AuthService.login (the password is right)
Login(u) ==
  /\ Cardinality(tokens) < MaxTokens
  /\ IF u \notin DOMAIN users \/ users[u].status # "active" THEN
       /\ resp' = Respond("login", u, NULL, 401)
       /\ UNCHANGED db
     ELSE
       /\ tokens' = tokens \cup {TokenFor(u)}
       /\ resp' = Respond("login", u, NULL, 200)
       /\ UNCHANGED <<users, departments, inquiries, nextInquiryId, followUps, nextFollowUpId,
                      nextUserId, requests, side>>

\* POST /api/auth/register -> AuthService.register: the route hands over no role, so the
\* default of the destructuring, sales, is stored (username and email are free)
Register(body) ==
  LET registerData == [departmentId |-> body.departmentId, role |-> ""]
      role == IF registerData.role = "" THEN "sales" ELSE registerData.role
  IN /\ nextUserId <= MaxUserId
     /\ IF Truthy(registerData.departmentId)
            /\ registerData.departmentId \notin DOMAIN departments THEN
          /\ resp' = Respond("register", NULL, NULL, 400)
          /\ UNCHANGED db
        ELSE
          /\ users' = WithRow(users, nextUserId, UserRow(role, OrNull(registerData.departmentId)))
          /\ nextUserId' = nextUserId + 1
          /\ tokens' = tokens \cup {[userId |-> nextUserId, role |-> role]}
          /\ resp' = Respond("register", nextUserId, NULL, 201)
          /\ UNCHANGED <<departments, inquiries, nextInquiryId, followUps, nextFollowUpId,
                         requests, side>>

\* the route with the whole request body handed to UserService.updateUser
UpdateProfileWholeBody(u, body) ==
  IF ~authOk(u) THEN
    /\ resp' = Respond("updateProfile", u, u, 401)
    /\ UNCHANGED db
  ELSE
    /\ users' = [users EXCEPT ![u].fullName = IF body.fullName # "" THEN body.fullName ELSE @,
                              ![u].role = IF body.role # "" THEN body.role ELSE @]
    /\ resp' = Respond("updateProfile", u, u, 200)
    /\ UNCHANGED <<departments, inquiries, nextInquiryId, followUps, nextFollowUpId,
                   nextUserId, tokens, requests, side>>

\* PUT /api/users/profile -> UserService.updateUser(req.user.id, { fullName, phone });
\* fullName stands for the two columns a user may edit
UpdateProfile(u, body) ==
  LET userData == [fullName |-> body.fullName, role |-> ""]
  IN IF ~authOk(u) THEN
       /\ resp' = Respond("updateProfile", u, u, 401)
       /\ UNCHANGED db
     ELSE
       /\ users' = [users EXCEPT
                      ![u].fullName = IF userData.fullName # "" THEN userData.fullName ELSE @,
                      ![u].role = IF userData.role # "" THEN userData.role ELSE @]
       /\ resp' = Respond("updateProfile", u, u, 200)
       /\ UNCHANGED <<departments, inquiries, nextInquiryId, followUps, nextFollowUpId,
                      nextUserId, tokens, requests, side>>

\* req.user with the role read from the payload of the token
authMiddlewareTokenRole(tok) == [reqUser(tok.userId) EXCEPT !.role = tok.role]

\* req.user of a request carrying tok: only decoded.userId is used, the row is read again
authMiddleware(tok) == reqUser(tok.userId)

\* GET /api/inquiries/:id with the token explicit
TokenGetInquiryById(tok, id) ==
  /\ resp' = IF ~authOk(tok.userId) THEN Respond("getInquiryById", tok.userId, id, 401)
             ELSE IF id \notin DOMAIN inquiries THEN Respond("getInquiryById", tok.userId, id, 404)
             ELSE IF ~checkInquiryAccess(inquiries[id], authMiddleware(tok).id,
                                         authMiddleware(tok).role)
             THEN Respond("getInquiryById", tok.userId, id, 403)
             ELSE [Respond("getInquiryById", tok.userId, id, 200) EXCEPT !.result = {id}]
  /\ UNCHANGED db

\* GET /api/inquiries with the token explicit
TokenGetInquiryList(tok, q) ==
  /\ resp' = IF ~authOk(tok.userId) THEN Respond("getInquiryList", tok.userId, NULL, 401)
             ELSE [Respond("getInquiryList", tok.userId, NULL, 200) EXCEPT
                     !.query = q,
                     !.result = getInquiryList(
                       [search |-> q.search, status |-> q.status, assignedTo |-> q.assignedTo,
                        departmentId |-> q.departmentId,
                        userId |-> authMiddleware(tok).id, userRole |-> authMiddleware(tok).role,
                        userDepartmentId |-> authMiddleware(tok).departmentId])]
  /\ UNCHANGED db

(***************************************************************************)
(* FollowUpService: create, update                                         *)
(***************************************************************************)

\* highest id the autoincrement column of follow-up records hands out
MaxFollowUpId == 1

\* the switch with closed mapped to the status of the same name
StatusForResultClosed(followUpResult) ==
  CASE followUpResult = "interested" -> "contacted"
    [] followUpResult = "quoted" -> "quoted"
    [] followUpResult = "negotiating" -> "negotiating"
    [] followUpResult = "closed" -> "closed"
    [] followUpResult = "not_interested" -> "lost"
    [] OTHER -> ""

\* the switch of updateInquiryStatusBasedOnFollowUp; "" when the status is left alone
StatusForResult(followUpResult) ==
  CASE followUpResult = "interested" -> "contacted"
    [] followUpResult = "quoted" -> "quoted"
    [] followUpResult = "negotiating" -> "negotiating"
    [] followUpResult = "closed" -> "won"
    [] followUpResult = "not_interested" -> "lost"
    [] OTHER -> ""

\* the inquiries after updateInquiryStatusBasedOnFollowUp
updateInquiryStatusBasedOnFollowUp(inquiryId, followUpResult) ==
  IF StatusForResult(followUpResult) # ""
  THEN [inquiries EXCEPT ![inquiryId].status = StatusForResult(followUpResult)]
  ELSE inquiries

\* POST /api/follow-ups -> createFollowUp: the inquiry must exist
CreateFollowUp(u, inquiryId, result) ==
  /\ nextFollowUpId <= MaxFollowUpId
  /\ IF ~authOk(u) THEN
       /\ resp' = Respond("createFollowUp", u, inquiryId, 401)
       /\ UNCHANGED db
     ELSE IF inquiryId \notin DOMAIN inquiries THEN
       /\ resp' = Respond("createFollowUp", u, inquiryId, 404)
       /\ UNCHANGED db
     ELSE
       /\ followUps' = WithRow(followUps, nextFollowUpId,
                         [inquiryId |-> inquiryId, createdBy |-> reqUser(u).id, result |-> result])
       /\ nextFollowUpId' = nextFollowUpId + 1
       /\ inquiries' = IF result # ""
                       THEN updateInquiryStatusBasedOnFollowUp(inquiryId, result)
                       ELSE inquiries
       /\ resp' = Respond("createFollowUp", u, inquiryId, 201)
       /\ UNCHANGED <<users, departments, nextInquiryId, nextUserId, tokens, requests, side>>

\* PUT /api/follow-ups/:id -> updateFollowUp: only the record's creator
UpdateFollowUp(u, id, result) ==
  IF ~authOk(u) THEN
    /\ resp' = Respond("updateFollowUp", u, id, 401)
    /\ UNCHANGED db
  ELSE IF id \notin DOMAIN followUps THEN
    /\ resp' = Respond("updateFollowUp", u, id, 404)
    /\ UNCHANGED db
  ELSE IF followUps[id].createdBy # reqUser(u).id THEN
    /\ resp' = Respond("updateFollowUp", u, id, 403)
    /\ UNCHANGED db
  ELSE
    /\ followUps' = [followUps EXCEPT ![id].result = IF result # "" THEN result ELSE @]
    /\ inquiries' = IF result # ""
                    THEN updateInquiryStatusBasedOnFollowUp(followUps[id].inquiryId, result)
                    ELSE inquiries
    /\ resp' = Respond("updateFollowUp", u, id, 200)
    /\ UNCHANGED <<users, departments, nextInquiryId, nextFollowUpId, nextUserId, tokens, requests, side>>

\* GET /api/follow-ups -> getFollowUpList: the filters of the query string and nothing else
GetFollowUpList(u, q) ==
  /\ resp' = IF ~authOk(u) THEN Respond("getFollowUpList", u, NULL, 401)
             ELSE [Respond("getFollowUpList", u, NULL, 200) EXCEPT
                     !.result = {f \in DOMAIN followUps :
                                   /\ (Truthy(q.inquiryId) => followUps[f].inquiryId = q.inquiryId)
                                   /\ (Truthy(q.createdBy) => followUps[f].createdBy = q.createdBy)}]
  /\ UNCHANGED db

\* GET /api/follow-ups/:id -> getFollowUpById
GetFollowUpById(u, id) ==
  /\ resp' = IF ~authOk(u) THEN Respond("getFollowUpById", u, id, 401)
             ELSE IF id \notin DOMAIN followUps THEN Respond("getFollowUpById", u, id, 404)
             ELSE [Respond("getFollowUpById", u, id, 200) EXCEPT !.result = {id}]
  /\ UNCHANGED db

\* GET /api/follow-ups/inquiry/:inquiryId -> getInquiryFollowUps
GetInquiryFollowUps(u, inquiryId) ==
  /\ resp' = IF ~authOk(u) THEN Respond("getInquiryFollowUps", u, inquiryId, 401)
             ELSE [Respond("getInquiryFollowUps", u, inquiryId, 200) EXCEPT
                     !.result = {f \in DOMAIN followUps : followUps[f].inquiryId = inquiryId}]
  /\ UNCHANGED db

\* DELETE /api/follow-ups/:id -> deleteFollowUp, the creator check left out for admins
DeleteFollowUpByAdmin(u, id) ==
  IF ~authOk(u) THEN
    /\ resp' = Respond("deleteFollowUp", u, id, 401)
    /\ UNCHANGED db
  ELSE IF id \notin DOMAIN followUps THEN
    /\ resp' = Respond("deleteFollowUp", u, id, 404)
    /\ UNCHANGED db
  ELSE IF followUps[id].createdBy # reqUser(u).id /\ reqUser(u).role # "admin" THEN
    /\ resp' = Respond("deleteFollowUp", u, id, 403)
    /\ UNCHANGED db
  ELSE
    /\ followUps' = Without(followUps, {id})
    /\ resp' = Respond("deleteFollowUp", u, id, 200)
    /\ UNCHANGED <<users, departments, inquiries, nextInquiryId, nextFollowUpId,
                   nextUserId, tokens, requests, side>>

\* DELETE /api/follow-ups/:id -> deleteFollowUp: only the record's creator
DeleteFollowUp(u, id) ==
  IF ~authOk(u) THEN
    /\ resp' = Respond("deleteFollowUp", u, id, 401)
    /\ UNCHANGED db
  ELSE IF id \notin DOMAIN followUps THEN
    /\ resp' = Respond("deleteFollowUp", u, id, 404)
    /\ UNCHANGED db
  ELSE IF Truthy(reqUser(u).id) /\ followUps[id].createdBy # reqUser(u).id THEN
    /\ resp' = Respond("deleteFollowUp", u, id, 403)
    /\ UNCHANGED db
  ELSE
    /\ followUps' = Without(followUps, {id})
    /\ resp' = Respond("deleteFollowUp", u, id, 200)
    /\ UNCHANGED <<users, departments, inquiries, nextInquiryId, nextFollowUpId,
                   nextUserId, tokens, requests, side>>

\* the fixed part of the where object of getPendingFollowUps: due and not closed
PendingWhere(row) == row.due /\ row.result # "closed"

\* getPendingFollowUps: `if (userId) ... else if (departmentId) ...` on top of the fixed part
getPendingFollowUps(userId, departmentId) ==
  {f \in DOMAIN followUps :
     /\ PendingWhere(followUps[f])
     /\ IF Truthy(userId) THEN followUps[f].createdBy = userId
        ELSE IF Truthy(departmentId)
        THEN inquiries[followUps[f].inquiryId].departmentId = departmentId
        ELSE TRUE}

\* GET /api/follow-ups/pending/list: the switch on the role chooses what is handed on
GetPendingFollowUps(u) ==
  /\ resp' = IF ~authOk(u) THEN Respond("getPendingFollowUps", u, NULL, 401)
             ELSE [Respond("getPendingFollowUps", u, NULL, 200) EXCEPT
                     !.result =
                       CASE reqUser(u).role = "admin" -> getPendingFollowUps(UNDEF, UNDEF)
                         [] reqUser(u).role = "manager" ->
                              getPendingFollowUps(UNDEF, reqUser(u).departmentId)
                         [] OTHER -> getPendingFollowUps(reqUser(u).id, UNDEF)]
  /\ UNCHANGED db

(***************************************************************************)
(* InquiryService update, delete and batch, one await at a time: a request *)
(* in flight holds what it has read so far                                 *)
(***************************************************************************)

\* most requests in flight or finished in the interleaving specification
MaxRequests == 2

\* existingInquiry before findUnique has answered
NoRow == [title |-> EmptyText, status |-> "", assignedTo |-> NULL, createdBy |-> NULL,
          departmentId |-> NULL]

\* the request r with some of its fields replaced
Advance(r, change) ==
  [requests EXCEPT ![r] = [f \in DOMAIN @ |-> IF f \in DOMAIN change THEN change[f] ELSE @[f]]]

\* authMiddleware has run: req.user is fixed for the rest of the request
StartRequest(u, op, id, data) ==
  /\ Len(requests) < MaxRequests
  /\ IF ~authOk(u) THEN
       /\ resp' = Respond(op, u, id, 401)
       /\ UNCHANGED db
     ELSE
       /\ requests' = Append(requests,
                         [op |-> op, user |-> reqUser(u), id |-> id, data |-> data,
                          pc |-> "find", row |-> NoRow, decision |-> "none"])
       /\ UNCHANGED <<users, departments, inquiries, nextInquiryId, followUps, nextFollowUpId,
                      resp, nextUserId, tokens, side>>

\* await prisma.inquiry.findUnique / findMany: the row as it is now
FindInquiry(r) ==
  /\ requests[r].pc = "find"
  /\ IF requests[r].id \notin DOMAIN inquiries THEN
       /\ requests' = Advance(r, [pc |-> "done"])
       /\ resp' = Respond(requests[r].op, requests[r].user.id, requests[r].id,
                          IF requests[r].op = "batchUpdateInquiries" THEN 400 ELSE 404)
     ELSE
       /\ requests' = Advance(r, [pc |-> "check", row |-> inquiries[requests[r].id]])
       /\ resp' = resp
  /\ UNCHANGED <<users, departments, inquiries, nextInquiryId, followUps, nextFollowUpId,
                 nextUserId, tokens, side>>

\* await this.checkInquiryAccess(existingInquiry, userId, userRole): the row read earlier,
\* the role of req.user, and for a manager the user row as it is now
CheckAccess(r) ==
  /\ requests[r].pc = "check"
  /\ IF checkInquiryAccess(requests[r].row, requests[r].user.id, requests[r].user.role) THEN
       /\ requests' = Advance(r, [pc |-> "write", decision |-> "allow"])
       /\ resp' = resp
     ELSE
       /\ requests' = Advance(r, [pc |-> "done", decision |-> "deny"])
       /\ resp' = Respond(requests[r].op, requests[r].user.id, requests[r].id, 403)
  /\ UNCHANGED <<users, departments, inquiries, nextInquiryId, followUps, nextFollowUpId,
                 nextUserId, tokens, side>>

\* await prisma.inquiry.update / delete / updateMany: where { id }, no condition on the
\* columns the decision read; update and delete of a row that is gone fail
WriteInquiry(r) ==
  LET id == requests[r].id
      op == requests[r].op
  IN /\ requests[r].pc = "write"
     /\ requests' = Advance(r, [pc |-> "done"])
     /\ IF id \notin DOMAIN inquiries THEN
          /\ resp' = Respond(op, requests[r].user.id, id,
                             IF op = "batchUpdateInquiries" THEN 200 ELSE 500)
          /\ UNCHANGED <<inquiries, followUps>>
        ELSE
          /\ inquiries' = CASE op = "updateInquiry" ->
                                  [inquiries EXCEPT ![id] = UpdatedRow(@, requests[r].data)]
                             [] op = "deleteInquiry" -> Without(inquiries, {id})
                             [] OTHER -> BatchApplied({id}, "updateStatus", requests[r].data)
          /\ followUps' = IF op = "deleteInquiry" THEN CascadeFollowUps({id}) ELSE followUps
          /\ resp' = Respond(op, requests[r].user.id, id, 200)
     /\ UNCHANGED <<users, departments, nextInquiryId, nextFollowUpId, nextUserId, tokens, side>>

(***************************************************************************)
(* AiService: performAnalysis and testConnection, one await at a time      *)
(***************************************************************************)

\* columns of AiAnalysisRecord that are neither optional nor have a default
AiAnalysisRecordRequired ==
  {"inquiryId", "aiProvider", "modelName", "analysisType", "inputData", "outputData",
   "createdBy"}

\* prisma.aiAnalysisRecord.create accepts the data object only with every required column
Insertable(data) == AiAnalysisRecordRequired \subseteq DOMAIN data

\* the data object performAnalysis hands to prisma.aiAnalysisRecord.create
AnalysisCreateData(call) ==
  [inquiryId |-> call.id, aiProvider |-> call.provider, modelName |-> "model",
   analysisType |-> "content_analysis", inputData |-> call.id, status |-> "pending",
   createdBy |-> call.user]

\* a call of AiService in flight: what it was called with and what it holds so far
AiCall(op, u, id, provider, apiKey) ==
  [op |-> op, user |-> u, id |-> id, provider |-> provider, apiKey |-> apiKey, pc |-> "find",
   originalKey |-> "", usedKey |-> "", record |-> NULL, outcome |-> NULL]

\* POST /api/ai/analyze and every inquiry of POST /api/ai/batch-analyze -> performAnalysis,
\* up to its first await
StartAnalysis(u, inquiryId, provider) ==
  /\ Len(requests) < MaxRequests
  /\ IF ~authOk(u) THEN
       /\ resp' = Respond("performAnalysis", u, inquiryId, 401)
       /\ UNCHANGED db
     ELSE
       /\ requests' = Append(requests, AiCall("performAnalysis", u, inquiryId, provider, ""))
       /\ UNCHANGED <<users, departments, inquiries, nextInquiryId, followUps, nextFollowUpId,
                      resp, nextUserId, tokens, side>>

\* performAnalysis: prisma.inquiry.findUnique answers
AnalysisFindInquiry(r) ==
  /\ requests[r].op = "performAnalysis" /\ requests[r].pc = "find"
  /\ requests' = IF requests[r].id \in DOMAIN inquiries THEN Advance(r, [pc |-> "create"])
                 ELSE Advance(r, [pc |-> "done", outcome |-> 404])
  /\ UNCHANGED <<users, departments, inquiries, nextInquiryId, followUps, nextFollowUpId, resp,
                 nextUserId, tokens, side>>

\* performAnalysis: prisma.aiAnalysisRecord.create answers; on success the provider is
\* called at once with the key configured at that moment
AnalysisCreateRecord(r) ==
  /\ requests[r].op = "performAnalysis" /\ requests[r].pc = "create"
  /\ IF Insertable(AnalysisCreateData(requests[r])) THEN
       /\ aiAnalysisRecords' =
            WithRow(aiAnalysisRecords, nextAnalysisId,
                    [inquiryId |-> requests[r].id, status |-> "pending",
                     createdBy |-> requests[r].user, outputData |-> NULL])
       /\ nextAnalysisId' = nextAnalysisId + 1
       /\ requests' = Advance(r, [pc |-> "await", record |-> nextAnalysisId,
                                  usedKey |-> aiConfig[requests[r].provider].apiKey])
     ELSE
       /\ requests' = Advance(r, [pc |-> "done", outcome |-> 500])
       /\ UNCHANGED <<aiAnalysisRecords, nextAnalysisId>>
  /\ UNCHANGED <<users, departments, inquiries, nextInquiryId, followUps, nextFollowUpId, resp,
                 nextUserId, tokens, nextDepartmentId, suspiciousActivities, now, aiConfig>>

\* AiService.testConnection(aiProvider, apiKey) up to its await: with an apiKey the
\* configured key is saved and replaced, and the provider is called with the key in place.
\* The function takes no user; its route (part_000:152) is registered after a stub for the
\* same path (part_000:135), so the calls modelled here are calls of the service.
BeginTestConnection(provider, apiKey) ==
  /\ Len(requests) < MaxRequests
  /\ aiConfig' = IF apiKey # "" THEN [aiConfig EXCEPT ![provider].apiKey = apiKey]
                 ELSE aiConfig
  /\ requests' = Append(requests,
                   [AiCall("testConnection", NULL, NULL, provider, apiKey) EXCEPT
                      !.pc = "await",
                      !.originalKey = aiConfig[provider].apiKey,
                      !.usedKey = aiConfig'[provider].apiKey])
  /\ UNCHANGED <<users, departments, inquiries, nextInquiryId, followUps, nextFollowUpId,
                 resp, nextUserId, tokens, nextDepartmentId, suspiciousActivities, now,
                 aiAnalysisRecords, nextAnalysisId>>

\* the provider answers (ok) or fails: testConnection restores the key it saved and
\* returns; performAnalysis stores the outcome in its record and returns or rethrows
ProviderAnswers(r, ok) ==
  /\ requests[r].pc = "await"
  /\ requests' = Advance(r, [pc |-> "done", outcome |-> IF ok THEN 200 ELSE 500])
  /\ IF requests[r].op = "testConnection" THEN
       /\ aiConfig' = IF requests[r].apiKey # ""
                      THEN [aiConfig EXCEPT ![requests[r].provider].apiKey =
                                              requests[r].originalKey]
                      ELSE aiConfig
       /\ UNCHANGED <<aiAnalysisRecords>>
     ELSE
       /\ aiAnalysisRecords' =
            IF requests[r].record \in DOMAIN aiAnalysisRecords
            THEN [aiAnalysisRecords EXCEPT
                    ![requests[r].record].status = IF ok THEN "completed" ELSE "failed",
                    ![requests[r].record].outputData = IF ok THEN 1 ELSE @]
            ELSE aiAnalysisRecords
       /\ UNCHANGED <<aiConfig>>
  /\ UNCHANGED <<users, departments, inquiries, nextInquiryId, followUps, nextFollowUpId, resp,
                 nextUserId, tokens, nextDepartmentId, suspiciousActivities, now,
                 nextAnalysisId>>

(***************************************************************************)
(* Scoping specification: any subject, any stored inquiries, one query     *)
(* after another                                                           *)
(***************************************************************************)

\* path segments req.route.path.split('/')[1] can give the middleware
ResourceTypes == {"inquiries", ":id"}

\* query strings the scoping specification sends to GET /api/inquiries
ListQueries ==
  [search : {EmptyText, <<"b">>}, status : {"", "won"}, assignedTo : {UNDEF, 2},
   departmentId : {UNDEF, 2}, userId : {UNDEF}]

\* query strings the scoping specification sends to the statistics routes
StatQueries ==
  [search : {EmptyText}, status : {""}, assignedTo : {UNDEF},
   departmentId : {UNDEF, 2}, userId : {UNDEF, 1}]

InitScope ==
  /\ \E role \in AnyRoles, d \in {NULL} \cup DeptIds :
       users = [u \in UserIds |->
                  IF u \in ScopeSubjects THEN UserRow(role, d) ELSE UserRow("sales", NULL)]
  /\ departments = DepartmentTree
  /\ \E a \in [ScopeIds -> {NULL} \cup UserIds], c \in [ScopeIds -> UserIds],
        d \in [ScopeIds -> {NULL} \cup DeptIds] :
       inquiries = [id \in ScopeIds |-> InquiryRow(id, a[id], c[id], d[id], "new")]
  /\ nextInquiryId = Cardinality(ScopeIds) + 1
  /\ followUps = << >>
  /\ nextFollowUpId = 1
  /\ resp = NoResp
  /\ nextUserId = Cardinality(UserIds) + 1
  /\ tokens = {}
  /\ requests = << >>
  /\ InitSide

NextScope ==
  \/ \E u \in ScopeSubjects, q \in ListQueries : GetInquiryList(u, q)
  \/ \E u \in ScopeSubjects, id \in ScopeIds : GetInquiryById(u, id)
  \/ \E u \in ScopeSubjects, q \in StatQueries : GetInquiryStatistics(u, q)
  \/ \E u \in ScopeSubjects, q \in StatQueries : GetDashboardData(u, q)
  \/ \E u \in ScopeSubjects, t \in ResourceTypes, id \in ScopeIds : CheckDataPermission(u, t, id)

SpecScope == InitScope /\ [][NextScope]_vars

(***************************************************************************)
(* Main specification: inquiries are created, reassigned, moved between    *)
(* departments and deleted while an admin changes the role and department  *)
(* of the other user                                                       *)
(***************************************************************************)

\* request bodies of PUT /api/inquiries/:id
UpdateBodies ==
  [assignedTo : {UNDEF} \cup UserIds, departmentId : {UNDEF, 1}, status : {""},
   createdBy : {UNDEF}]

\* query strings of GET /api/inquiries the main specification evaluates for an admin
AdminQueries ==
  [search : {EmptyText, <<"b">>}, status : {"", "new"}, assignedTo : {UNDEF, 2},
   departmentId : {UNDEF, 1}, userId : {UNDEF}]

\* ids arrays of PATCH /api/inquiries/batch: one id, two ids, one id twice
BatchIdArrays == {<<1>>, <<1, 2>>, <<2, 2>>}

\* action and data of PATCH /api/inquiries/batch
BatchCommands ==
  [action : {"assign"}, data : [assignedTo : UserIds, status : {""}]]
    \cup [action : {"delete"}, data : [assignedTo : {UNDEF}, status : {""}]]

Init ==
  /\ users = [u \in UserIds |-> IF u = 1 THEN UserRow("admin", NULL) ELSE UserRow("sales", NULL)]
  /\ departments = DepartmentTree
  /\ inquiries = << >>
  /\ nextInquiryId = 1
  /\ followUps = << >>
  /\ nextFollowUpId = 1
  /\ resp = NoResp
  /\ nextUserId = Cardinality(UserIds) + 1
  /\ tokens = {}
  /\ requests = << >>
  /\ InitSide

Next ==
  \/ \E u \in UserIds, a \in {UNDEF} \cup UserIds, d \in {UNDEF, 1} : CreateInquiry(u, a, d)
  \/ \E u \in UserIds, id \in 1..MaxInquiryId, data \in UpdateBodies : UpdateInquiry(u, id, data)
  \/ \E u \in UserIds, id \in 1..MaxInquiryId : DeleteInquiry(u, id)
  \/ \E u \in UserIds, ids \in BatchIdArrays, c \in BatchCommands :
       BatchUpdateInquiries(u, ids, c.action, c.data)
  \/ \E a \in UserIds, role \in Roles, d \in {UNDEF, 1} : UpdateUser(a, 2, role, d)

Spec == Init /\ [][Next]_vars

(***************************************************************************)
(* Follow-up specification: one stored inquiry, its status driven by       *)
(* updates, batch updates and follow-up records of either user             *)
(***************************************************************************)

\* ids of the inquiries stored in the follow-up specification
FollowedIds == {1}

\* results a request body of the follow-up routes carries ("" is no result)
FollowUpResults == {"", "interested", "no_answer", "closed"}

InitFollowUp ==
  /\ \E role \in Roles :
       users = [u \in UserIds |-> IF u = 1 THEN UserRow("admin", NULL) ELSE UserRow(role, NULL)]
  /\ departments = DepartmentTree
  /\ \E a \in {NULL} \cup UserIds, c \in UserIds :
       inquiries = [id \in FollowedIds |-> InquiryRow(id, a, c, NULL, "new")]
  /\ nextInquiryId = Cardinality(FollowedIds) + 1
  /\ followUps = << >>
  /\ nextFollowUpId = 1
  /\ resp = NoResp
  /\ nextUserId = Cardinality(UserIds) + 1
  /\ tokens = {}
  /\ requests = << >>
  /\ InitSide

\* request bodies of PUT /api/inquiries/:id in the follow-up specification
FollowedBodies ==
  [assignedTo : {UNDEF, 1}, departmentId : {UNDEF}, status : {"quoted"}, createdBy : {UNDEF, 2}]

\* action and data of PATCH /api/inquiries/batch in the follow-up specification
FollowedCommands ==
  {[action |-> "updateStatus", data |-> [assignedTo |-> UNDEF, status |-> "closed"]],
   [action |-> "assign", data |-> [assignedTo |-> 1, status |-> ""]]}

\* query strings of GET /api/follow-ups
FollowUpQueries == [inquiryId : {UNDEF, 1}, createdBy : {UNDEF, 2}]

NextFollowUp ==
  \/ \E u \in UserIds, id \in FollowedIds, data \in FollowedBodies : UpdateInquiry(u, id, data)
  \/ \E u \in UserIds, id \in FollowedIds : DeleteInquiry(u, id)
  \/ \E u \in UserIds, id \in FollowedIds, c \in FollowedCommands :
       BatchUpdateInquiries(u, <<id>>, c.action, c.data)
  \/ \E u \in UserIds, id \in FollowedIds : GetInquiryById(u, id)
  \/ \E u \in UserIds, q \in FollowUpQueries : GetFollowUpList(u, q)
  \/ \E u \in UserIds, f \in 1..MaxFollowUpId : GetFollowUpById(u, f)
  \/ \E u \in UserIds, id \in FollowedIds : GetInquiryFollowUps(u, id)
  \/ \E u \in UserIds, id \in FollowedIds, r \in FollowUpResults : CreateFollowUp(u, id, r)
  \/ \E u \in UserIds, f \in 1..MaxFollowUpId, r \in FollowUpResults : UpdateFollowUp(u, f, r)

SpecFollowUp == InitFollowUp /\ [][NextFollowUp]_vars

(***************************************************************************)
(* Account specification: users register and edit their profile while     *)
(* admins change roles                                                     *)
(***************************************************************************)

\* request bodies of POST /api/auth/register
RegisterBodies == [departmentId : {UNDEF, 1}, role : {"", "admin"}]

\* request bodies of PUT /api/users/profile
ProfileBodies == [fullName : {"", "b"}, role : {"", "admin"}]

InitAccounts ==
  /\ users = [u \in UserIds |-> IF u = 1 THEN UserRow("admin", NULL) ELSE UserRow("sales", NULL)]
  /\ departments = DepartmentTree
  /\ inquiries = [id \in ScopeIds |->
                    IF id = 1 THEN InquiryRow(id, 2, 1, NULL, "new")
                    ELSE InquiryRow(id, NULL, 2, 1, "new")]
  /\ nextInquiryId = Cardinality(ScopeIds) + 1
  /\ followUps = << >>
  /\ nextFollowUpId = 1
  /\ resp = NoResp
  /\ nextUserId = Cardinality(UserIds) + 1
  /\ tokens = {}
  /\ requests = << >>
  /\ InitSide

\* roles the admin hands out in the account specification
AccountRoles == {"manager", "admin"}

NextAccounts ==
  \/ \E body \in RegisterBodies : Register(body)
  \/ \E u \in DOMAIN users, body \in ProfileBodies : UpdateProfile(u, body)
  \/ \E a \in DOMAIN users, t \in 2..MaxUserId, role \in AccountRoles :
       UpdateUser(a, t, role, UNDEF)

SpecAccounts == InitAccounts /\ [][NextAccounts]_vars

(***************************************************************************)
(* Token specification: users log in, the admin changes the role and the   *)
(* department of the other user, and tokens signed earlier keep being      *)
(* presented                                                               *)
(***************************************************************************)

NextTokens ==
  \/ \E u \in UserIds : Login(u)
  \/ \E a \in UserIds, role \in Roles, d \in {UNDEF, 1} : UpdateUser(a, 2, role, d)
  \/ \E tok \in tokens, id \in ScopeIds : TokenGetInquiryById(tok, id)
  \/ \E tok \in tokens : TokenGetInquiryList(tok, NoQuery)

SpecTokens == InitAccounts /\ [][NextTokens]_vars

(***************************************************************************)
(* Interleaving specification: requests of user 2 on one inquiry advance   *)
(* await by await while the admin reassigns the inquiry and moves user 2   *)
(* to another department                                                   *)
(***************************************************************************)

\* operation and body of the requests in flight
RaceRequests ==
  [op : {"updateInquiry", "batchUpdateInquiries"},
   data : {[assignedTo |-> UNDEF, departmentId |-> UNDEF, status |-> "quoted", createdBy |-> UNDEF]}]
    \cup [op : {"deleteInquiry"},
          data : {[assignedTo |-> UNDEF, departmentId |-> UNDEF, status |-> "", createdBy |-> UNDEF]}]

InitRace ==
  /\ \E role \in {"sales", "manager"} :
       users = [u \in UserIds |-> IF u = 1 THEN UserRow("admin", NULL) ELSE UserRow(role, 1)]
  /\ departments = DepartmentTree
  /\ inquiries = [id \in FollowedIds |-> InquiryRow(id, 2, 1, 1, "new")]
  /\ nextInquiryId = Cardinality(FollowedIds) + 1
  /\ followUps = << >>
  /\ nextFollowUpId = 1
  /\ resp = NoResp
  /\ nextUserId = Cardinality(UserIds) + 1
  /\ tokens = {}
  /\ requests = << >>
  /\ InitSide

NextRace ==
  \/ \E id \in FollowedIds, q \in RaceRequests : StartRequest(2, q.op, id, q.data)
  \/ \E r \in DOMAIN requests : FindInquiry(r)
  \/ \E r \in DOMAIN requests : CheckAccess(r)
  \/ \E r \in DOMAIN requests : WriteInquiry(r)
  \/ \E id \in FollowedIds :
       UpdateInquiry(1, id, [assignedTo |-> 1, departmentId |-> UNDEF, status |-> "",
                             createdBy |-> UNDEF])
  \/ UpdateUser(1, 2, "", 2)

SpecRace == InitRace /\ [][NextRace]_vars

(***************************************************************************)
(* Batch specification: batches over two stored inquiries, with ids that   *)
(* do not exist and actions the route does not know                        *)
(***************************************************************************)

\* ids arrays of PATCH /api/inquiries/batch, one of them naming an inquiry never stored
BatchArrays == BatchIdArrays \cup {<<1, 3>>}

\* action and data of PATCH /api/inquiries/batch, one of them no action of the route
BatchBodies ==
  BatchCommands
    \cup {[action |-> "updateStatus", data |-> [assignedTo |-> UNDEF, status |-> "closed"]],
          [action |-> "archive", data |-> [assignedTo |-> UNDEF, status |-> ""]]}

InitBatch ==
  /\ users = [u \in UserIds |-> IF u = 1 THEN UserRow("admin", NULL) ELSE UserRow("sales", NULL)]
  /\ departments = DepartmentTree
  /\ \E a \in [ScopeIds -> UserIds], c \in [ScopeIds -> UserIds] :
       inquiries = [id \in ScopeIds |-> InquiryRow(id, a[id], c[id], NULL, "new")]
  /\ nextInquiryId = Cardinality(ScopeIds) + 1
  /\ followUps = << >>
  /\ nextFollowUpId = 1
  /\ resp = NoResp
  /\ nextUserId = Cardinality(UserIds) + 1
  /\ tokens = {}
  /\ requests = << >>
  /\ InitSide

NextBatch ==
  \/ \E u \in UserIds, ids \in BatchArrays, c \in BatchBodies :
       BatchUpdateInquiries(u, ids, c.action, c.data)
  \/ \E id \in ScopeIds, r \in {"interested", "closed"} : CreateFollowUp(1, id, r)

SpecBatch == InitBatch /\ [][NextBatch]_vars

(***************************************************************************)
(* Record specification: follow-up records of one inquiry in any status    *)
(* are created, changed and deleted by either user                         *)
(***************************************************************************)

\* every result the follow-up routes accept ("" is no result)
AllFollowUpResults ==
  {"", "no_answer", "interested", "not_interested", "need_more_info", "quoted", "negotiating",
   "closed"}

InitRecords ==
  /\ users = [u \in UserIds |-> IF u = 1 THEN UserRow("admin", NULL) ELSE UserRow("sales", NULL)]
  /\ departments = DepartmentTree
  /\ \E s \in InquiryStatuses : inquiries = [id \in FollowedIds |-> InquiryRow(id, 1, 1, NULL, s)]
  /\ nextInquiryId = Cardinality(FollowedIds) + 1
  /\ followUps = << >>
  /\ nextFollowUpId = 1
  /\ resp = NoResp
  /\ nextUserId = Cardinality(UserIds) + 1
  /\ tokens = {}
  /\ requests = << >>
  /\ InitSide

NextRecords ==
  \/ \E u \in UserIds, id \in FollowedIds, r \in AllFollowUpResults : CreateFollowUp(u, id, r)
  \/ \E u \in UserIds, f \in 1..MaxFollowUpId, r \in AllFollowUpResults : UpdateFollowUp(u, f, r)
  \/ \E u \in UserIds, f \in 1..MaxFollowUpId : DeleteFollowUp(u, f)

SpecRecords == InitRecords /\ [][NextRecords]_vars

(***************************************************************************)
(* Pending specification: the pending list read by a subject of any role   *)
(* over stored inquiries and follow-up records                             *)
(***************************************************************************)

\* ids of the follow-up records stored in the pending specification
PendingIds == {1, 2}

\* stored follow-up records: due says that nextFollowUpDate has passed
PendingRows == [inquiryId : ScopeIds, createdBy : UserIds, result : {"no_answer", "closed"},
                due : BOOLEAN]

InitPending ==
  /\ \E role \in AnyRoles, d \in {NULL} \cup DeptIds :
       users = [u \in UserIds |-> IF u = 1 THEN UserRow(role, d) ELSE UserRow("sales", NULL)]
  /\ departments = DepartmentTree
  /\ \E d \in [ScopeIds -> {NULL} \cup DeptIds] :
       inquiries = [id \in ScopeIds |-> InquiryRow(id, 2, 2, d[id], "new")]
  /\ nextInquiryId = Cardinality(ScopeIds) + 1
  /\ followUps \in [PendingIds -> PendingRows]
  /\ nextFollowUpId = Cardinality(PendingIds) + 1
  /\ resp = NoResp
  /\ nextUserId = Cardinality(UserIds) + 1
  /\ tokens = {}
  /\ requests = << >>
  /\ InitSide

NextPending == \E u \in UserIds : GetPendingFollowUps(u)

SpecPending == InitPending /\ [][NextPending]_vars

(***************************************************************************)
(* Department specification: an admin and a sales user create, move,       *)
(* rename and delete departments                                           *)
(***************************************************************************)

\* parentId of a request body: absent, or an id the route's isInt lets through
ParentIds == {UNDEF} \cup 1..MaxDepartmentId

InitDepartments ==
  /\ users = [u \in UserIds |-> IF u = 1 THEN UserRow("admin", NULL) ELSE UserRow("sales", NULL)]
  /\ departments = NamedDepartmentTree
  /\ inquiries = << >>
  /\ nextInquiryId = 1
  /\ followUps = << >>
  /\ nextFollowUpId = 1
  /\ resp = NoResp
  /\ nextUserId = Cardinality(UserIds) + 1
  /\ tokens = {}
  /\ requests = << >>
  /\ InitSide

NextDepartments ==
  \/ \E a \in UserIds, name \in DepartmentNames, p \in ParentIds : CreateDepartment(a, name, p)
  \/ \E a \in UserIds, id \in 1..MaxDepartmentId, name \in {""} \cup DepartmentNames,
        p \in ParentIds : UpdateDepartment(a, id, name, p)
  \/ \E a \in UserIds, id \in 1..MaxDepartmentId : DeleteDepartment(a, id)

SpecDepartments == InitDepartments /\ [][NextDepartments]_vars

(***************************************************************************)
(* Owner specification: an admin and a sales user create and reassign      *)
(* inquiries while the admin deletes users                                 *)
(***************************************************************************)

\* the users stored at the start: the admin 1, the sales users 2 and 3
OwnerIds == {1, 2, 3}

\* assignedTo of a request body: absent, a stored user, or an id no user ever had
AssigneeIds == {UNDEF, 2, 3, 4}

InitOwners ==
  /\ users = [u \in OwnerIds |-> IF u = 1 THEN UserRow("admin", NULL) ELSE UserRow("sales", NULL)]
  /\ departments = DepartmentTree
  /\ inquiries = << >>
  /\ nextInquiryId = 1
  /\ followUps = << >>
  /\ nextFollowUpId = 1
  /\ resp = NoResp
  /\ nextUserId = Cardinality(OwnerIds) + 1
  /\ tokens = {}
  /\ requests = << >>
  /\ InitSide

NextOwners ==
  \/ \E u \in UserIds, a \in AssigneeIds : CreateInquiry(u, a, UNDEF)
  \/ \E u \in UserIds, id \in 1..MaxInquiryId, a \in AssigneeIds :
       UpdateInquiry(u, id, [assignedTo |-> a, departmentId |-> UNDEF, status |-> "",
                             createdBy |-> UNDEF])
  \/ \E u \in UserIds, id \in 1..MaxInquiryId, a \in AssigneeIds :
       BatchUpdateInquiries(u, <<id>>, "assign", [assignedTo |-> a, status |-> ""])
  \/ \E a \in UserIds, t \in OwnerIds : DeleteUser(a, t)

SpecOwners == InitOwners /\ [][NextOwners]_vars

(***************************************************************************)
(* Lockout specification: users log in and read with their tokens while    *)
(* the admin deactivates, reactivates and deletes users                    *)
(***************************************************************************)

\* status of a request body of PUT /api/users/:id
UserStatuses == {"active", "inactive", "suspended"}

InitLockout ==
  /\ users = [u \in OwnerIds |-> IF u = 1 THEN UserRow("admin", NULL) ELSE UserRow("sales", NULL)]
  /\ departments = DepartmentTree
  /\ inquiries = [id \in FollowedIds |-> InquiryRow(id, 2, 1, NULL, "new")]
  /\ nextInquiryId = Cardinality(FollowedIds) + 1
  /\ followUps = << >>
  /\ nextFollowUpId = 1
  /\ resp = NoResp
  /\ nextUserId = Cardinality(OwnerIds) + 1
  /\ tokens = {}
  /\ requests = << >>
  /\ InitSide

NextLockout ==
  \/ \E u \in OwnerIds : Login(u)
  \/ \E a \in UserIds, t \in OwnerIds, status \in UserStatuses : UpdateUserStatus(a, t, status)
  \/ \E a \in UserIds, t \in OwnerIds : DeleteUser(a, t)
  \/ \E tok \in tokens, id \in FollowedIds : TokenGetInquiryById(tok, id)
  \/ \E tok \in tokens : TokenGetInquiryList(tok, NoQuery)

SpecLockout == InitLockout /\ [][NextLockout]_vars

(***************************************************************************)
(* Security specification: a client sends suspicious and harmless requests *)
(* while time passes and the cleanup timer fires                           *)
(***************************************************************************)

InitSecurity == InitLockout

NextSecurity ==
  \/ \E key \in ClientKeys, isSuspicious \in BOOLEAN :
       SuspiciousActivityMiddleware(key, isSuspicious)
  \/ CleanupSuspiciousActivities
  \/ Tick

SpecSecurity == InitSecurity /\ [][NextSecurity]_vars

(***************************************************************************)
(* AI specification: analyses and connection tests overlap                 *)
(***************************************************************************)

\* apiKey argument of testConnection ("" when absent)
SuppliedKeys == {"", "key1", "key2"}

\* inquiryId of a request body of POST /api/ai/analyze: a stored inquiry and a missing one
AnalysedIds == {1, 2}

InitAi == InitLockout

NextAi ==
  \/ \E u \in UserIds, id \in AnalysedIds, p \in AiProviders : StartAnalysis(u, id, p)
  \/ \E r \in DOMAIN requests : AnalysisFindInquiry(r)
  \/ \E r \in DOMAIN requests : AnalysisCreateRecord(r)
  \/ \E p \in AiProviders, k \in SuppliedKeys : BeginTestConnection(p, k)
  \/ \E r \in DOMAIN requests, ok \in BOOLEAN : ProviderAnswers(r, ok)

SpecAi == InitAi /\ [][NextAi]_vars

(***************************************************************************)
(* Vocabulary of the properties                                            *)
(***************************************************************************)

\* the last response answers a request of this kind that passed authMiddleware
Answered(op) == resp.op = op /\ resp.code # 401

\* role of the subject of the last request
RespRole == users[resp.user].role

\* the inquiries the subject created or is assigned
Owned(u) == {id \in DOMAIN inquiries : inquiries[id].assignedTo = u \/ inquiries[id].createdBy = u}

\* the row passes every filter the caller put in the query string
CallerFilterOk(q, row) ==
  /\ (q.search = EmptyText \/ Contains(row.title, q.search))
  /\ (q.status = "" \/ row.status = q.status)
  /\ (~Truthy(q.assignedTo) \/ row.assignedTo = q.assignedTo)
  /\ (~Truthy(q.departmentId) \/ row.departmentId = q.departmentId)

\* what GET /api/inquiries without any filter shows the subject
ListScopeOf(u) == getInquiryList(ListParams(u, NoQuery))

\* the point decision for subject u on a stored inquiry
Allowed(u, id) == checkInquiryAccess(inquiries[id], reqUser(u).id, reqUser(u).role)

(***************************************************************************)
(* C1  Scoping/decision consistency: an inquiry is in the unfiltered list  *)
(* of a subject exactly when the point decision for that subject on it is  *)
(* allow.                                                                  *)
(***************************************************************************)
C1_ScopeMatchesDecision ==
  (Answered("getInquiryList") /\ resp.query = NoQuery) =>
    \A id \in DOMAIN inquiries : (id \in resp.result) <=> Allowed(resp.user, id)

(***************************************************************************)
(* C2  Collection scoping only narrows: the list is exactly the inquiries  *)
(* that pass every caller filter and the subject's role scope, and holds   *)
(* no inquiry that fails a caller filter.                                  *)
(***************************************************************************)
C2_ScopeOnlyNarrows ==
  Answered("getInquiryList") =>
    /\ \A id \in resp.result : CallerFilterOk(resp.query, inquiries[id])
    /\ resp.result = {id \in ListScopeOf(resp.user) : CallerFilterOk(resp.query, inquiries[id])}

(***************************************************************************)
(* C3  Sales dual-ownership: a sales subject is listed, and allowed, the   *)
(* inquiries assigned to or created by the subject and no others.          *)
(***************************************************************************)
C3_SalesDualOwnership ==
  /\ (Answered("getInquiryList") /\ RespRole = "sales") =>
       /\ resp.result \subseteq Owned(resp.user)
       /\ (resp.query = NoQuery => resp.result = Owned(resp.user))
  /\ (Answered("getInquiryById") /\ RespRole = "sales") =>
       (resp.code = 200 <=> resp.id \in Owned(resp.user))

\* a sales subject with a department lists an unassigned inquiry it created and not the
\* inquiry of its own department that it neither created nor is assigned
C3_Witness ==
  /\ Answered("getInquiryList") /\ resp.query = NoQuery /\ RespRole = "sales"
  /\ \E i, j \in DOMAIN inquiries :
       /\ inquiries[i].assignedTo = NULL /\ inquiries[i].createdBy = resp.user
       /\ inquiries[j].departmentId = users[resp.user].departmentId
       /\ inquiries[j].departmentId # NULL /\ j \notin Owned(resp.user)
       /\ resp.result = {i}

(***************************************************************************)
(* C4  Manager department equality, non-transitive: a manager with         *)
(* department d is listed, and allowed, exactly the inquiries whose        *)
(* departmentId is d.                                                      *)
(***************************************************************************)
C4_ManagerOwnDepartmentOnly ==
  LET d == users[resp.user].departmentId
      InDept == {id \in DOMAIN inquiries : inquiries[id].departmentId = d}
  IN /\ (Answered("getInquiryList") /\ RespRole = "manager" /\ d # NULL) =>
          /\ resp.result \subseteq InDept
          /\ (resp.query = NoQuery => resp.result = InDept)
     /\ (Answered("getInquiryById") /\ RespRole = "manager" /\ d # NULL) =>
          (resp.code = 200 <=> resp.id \in InDept)

\* a manager lists nothing while one inquiry is in a child department and the other has no
\* department and is assigned to the manager
C4_Witness ==
  /\ Answered("getInquiryList") /\ resp.query = NoQuery /\ RespRole = "manager"
  /\ users[resp.user].departmentId # NULL
  /\ \E i, j \in DOMAIN inquiries :
       /\ inquiries[i].departmentId \in DeptIds
       /\ departments[inquiries[i].departmentId].parentId = users[resp.user].departmentId
       /\ inquiries[j].departmentId = NULL /\ inquiries[j].assignedTo = resp.user
  /\ resp.result = {}

(***************************************************************************)
(* C5  A manager without a department is listed, and allowed, no inquiry   *)
(* other than the ones the manager created or is assigned.                 *)
(***************************************************************************)
C5_NoDepartmentNoScope ==
  /\ (Answered("getInquiryList") /\ RespRole = "manager"
        /\ users[resp.user].departmentId = NULL) =>
       resp.result \subseteq Owned(resp.user)
  /\ (Answered("getInquiryById") /\ RespRole = "manager"
        /\ users[resp.user].departmentId = NULL /\ resp.code = 200) =>
       resp.id \in Owned(resp.user)

(***************************************************************************)
(* C6  Unknown-role fail-safe: a subject whose role is customer_service or *)
(* outside the closed set is listed, and allowed, exactly the inquiries    *)
(* assigned to the subject, and the decision answers allow or deny, never  *)
(* an error.                                                               *)
(***************************************************************************)
C6_UnknownRoleAssignedOnly ==
  LET Assigned == {id \in DOMAIN inquiries : inquiries[id].assignedTo = resp.user}
  IN /\ (Answered("getInquiryList") /\ RespRole \notin {"admin", "manager", "sales"}) =>
          /\ resp.code = 200
          /\ resp.result \subseteq Assigned
          /\ (resp.query = NoQuery => resp.result = Assigned)
     /\ (Answered("getInquiryById") /\ RespRole \notin {"admin", "manager", "sales"}) =>
          /\ resp.code \in {200, 403}
          /\ (resp.code = 200 <=> resp.id \in Assigned)

\* a subject with a role the code does not name is denied, without an error, an
\* inquiry it created but is not assigned
C6_Witness ==
  /\ Answered("getInquiryById") /\ RespRole = UnknownRole
  /\ resp.code = 403
  /\ inquiries[resp.id].createdBy = resp.user

(***************************************************************************)
(* C8  Admin sees all: for every admin the point decision is allow on      *)
(* every inquiry, no update, delete or batch request of an admin is        *)
(* refused, and the list of an admin holds every inquiry that passes the   *)
(* caller's own filters.                                                   *)
(***************************************************************************)
C8_AdminSeesAll ==
  /\ \A a \in DOMAIN users :
       users[a].role = "admin" =>
         /\ \A id \in DOMAIN inquiries : Allowed(a, id)
         /\ \A q \in AdminQueries :
              getInquiryList(ListParams(a, q))
                = {id \in DOMAIN inquiries : CallerFilterOk(q, inquiries[id])}
  /\ (resp.op \in {"updateInquiry", "deleteInquiry", "batchUpdateInquiries"} /\ resp.code = 403)
       => RespRole # "admin"

\* an admin with a department has just updated an inquiry of no department that the
\* admin neither created nor is assigned
C8_Witness ==
  /\ resp.op = "updateInquiry" /\ resp.code = 200 /\ RespRole = "admin"
  /\ users[resp.user].departmentId # NULL
  /\ resp.id \in DOMAIN inquiries /\ resp.id \notin Owned(resp.user)
  /\ inquiries[resp.id].departmentId = NULL

(***************************************************************************)
(* C10  Statistics scoping follows list scoping: every figure of the       *)
(* inquiry statistics and of the dashboard is computed only from inquiries *)
(* the list shows the subject.                                             *)
(***************************************************************************)
C10_StatisticsFollowListScope ==
  (Answered("getInquiryStatistics") \/ Answered("getDashboardData")) =>
    \A f \in DOMAIN resp.figures : resp.figures[f] \subseteq ListScopeOf(resp.user)

(***************************************************************************)
(* C7  Creator visibility, as stated: every inquiry is allowed to, and     *)
(* listed for, its creator whatever the creator's role and department, and *)
(* every admin.                                                            *)
(***************************************************************************)
C7_CreatorAlwaysSees ==
  \A id \in DOMAIN inquiries :
    /\ inquiries[id].createdBy \in DOMAIN users
    /\ Allowed(inquiries[id].createdBy, id)
    /\ id \in ListScopeOf(inquiries[id].createdBy)
    /\ \A a \in DOMAIN users :
         users[a].role = "admin" => Allowed(a, id) /\ id \in ListScopeOf(a)

(***************************************************************************)
(* C7 amended: after any sequence of create, update, batch and user        *)
(* updates, every inquiry is allowed to, and listed for, every admin and   *)
(* its creator while the creator's role is admin or sales.                 *)
(***************************************************************************)
C7_SalesOrAdminCreatorSees ==
  \A id \in DOMAIN inquiries :
    /\ inquiries[id].createdBy \in DOMAIN users
    /\ users[inquiries[id].createdBy].role \in {"admin", "sales"} =>
         /\ Allowed(inquiries[id].createdBy, id)
         /\ id \in ListScopeOf(inquiries[id].createdBy)
    /\ \A a \in DOMAIN users :
         users[a].role = "admin" => Allowed(a, id) /\ id \in ListScopeOf(a)

\* an inquiry created by a sales user has just been reassigned to somebody else and
\* sits in a department the creator does not belong to
C7_Witness ==
  /\ resp.op \in {"updateInquiry", "batchUpdateInquiries"} /\ resp.code = 200
  /\ \E id \in DOMAIN inquiries :
       /\ users[inquiries[id].createdBy].role = "sales"
       /\ inquiries[id].assignedTo \notin {NULL, inquiries[id].createdBy}
       /\ inquiries[id].departmentId # users[inquiries[id].createdBy].departmentId

(***************************************************************************)
(* C9  A subject the point decision denies on an inquiry cannot change any *)
(* field of it, nor delete it, through updateInquiry, deleteInquiry,       *)
(* batchUpdateInquiries, createFollowUp or updateFollowUp.                 *)
(***************************************************************************)
C9_DeniedCannotMutate ==
  [][\A id \in DOMAIN inquiries :
       (/\ resp'.op \in {"updateInquiry", "deleteInquiry", "batchUpdateInquiries",
                         "createFollowUp", "updateFollowUp"}
        /\ resp'.code # 401
        /\ ~Allowed(resp'.user, id))
       => (id \in DOMAIN inquiries' /\ inquiries'[id] = inquiries[id])]_vars

(***************************************************************************)
(* C11  The checkDataPermission middleware, evaluating an inquiry, calls   *)
(* next() exactly when checkInquiryAccess allows the same subject on the   *)
(* same inquiry.                                                           *)
(***************************************************************************)
C11_MiddlewareMatchesDecision ==
  [][\A u \in ScopeSubjects, id \in DOMAIN inquiries :
       (CheckDataPermission(u, "inquiries", id) /\ resp'.code # 401)
         => (resp'.code = 200 <=> Allowed(u, id))]_vars

(***************************************************************************)
(* C12  No decision is cached across requests: a request is decided and    *)
(* scoped with the role and department the user row holds when it is       *)
(* served, whatever role the payload of its token carries.                 *)
(***************************************************************************)
C12_DecidedWithCurrentRole ==
  /\ (resp.op = "getInquiryById" /\ resp.code \in {200, 403}) =>
       (resp.code = 200 <=> Allowed(resp.user, resp.id))
  /\ (resp.op = "getInquiryList" /\ resp.code = 200) => resp.result = ListScopeOf(resp.user)

\* every token of the requester was signed with another role than the requester has
\* now, one of them with a role that would allow the inquiry, and the request is denied
C12_Witness ==
  /\ resp.op = "getInquiryById" /\ resp.code = 403
  /\ \A tok \in tokens : tok.userId = resp.user => tok.role # users[resp.user].role
  /\ \E tok \in tokens :
       tok.userId = resp.user /\ checkInquiryAccess(inquiries[resp.id], resp.user, tok.role)

(***************************************************************************)
(* C13  No role elevation: a role changes only in a successful updateUser  *)
(* of a subject whose role is admin, a registered user starts with role    *)
(* sales, and the profile update leaves role, department and status alone. *)
(***************************************************************************)
C13_NoRoleElevation ==
  [][/\ \A u \in DOMAIN users :
          users'[u].role # users[u].role =>
            /\ resp'.op = "updateUser" /\ resp'.code = 200
            /\ resp'.user \in DOMAIN users /\ users[resp'.user].role = "admin"
     /\ \A u \in DOMAIN users' \ DOMAIN users : users'[u].role = "sales"
     /\ resp'.op = "updateProfile" =>
          \A u \in DOMAIN users :
            [users'[u] EXCEPT !.fullName = users[u].fullName] = users[u]]_vars

\* a registered user, whose registration asked for no role it got, has renamed itself
\* after the admin changed a role
C13_Witness ==
  /\ resp.op = "updateProfile" /\ resp.code = 200
  /\ resp.user \notin UserIds /\ users[resp.user].fullName = "b"
  /\ \E u \in DOMAIN users : users[u].role \notin {"admin", "sales"}

(***************************************************************************)
(* C14  The point decision is pure and total: it answers allow or deny,    *)
(* and two evaluations with the same subject (id, role, departmentId) and  *)
(* the same inquiry fields give the same answer, whatever else happens     *)
(* meanwhile.                                                              *)
(***************************************************************************)
C14_DecisionIsFunctionOfInputs ==
  \A r1, r2 \in DOMAIN requests :
    (/\ requests[r1].decision # "none" /\ requests[r2].decision # "none"
     /\ requests[r1].user = requests[r2].user
     /\ requests[r1].row = requests[r2].row)
    => requests[r1].decision = requests[r2].decision

(***************************************************************************)
(* C19  When updateInquiry, deleteInquiry or batchUpdateInquiries writes   *)
(* to an inquiry on behalf of a subject, the point decision for the        *)
(* subject on the inquiry as it is at that moment is allow.                *)
(***************************************************************************)
C19_WriteOnlyWhileAllowed ==
  [][\A r \in DOMAIN requests :
       (requests[r].pc = "write" /\ requests'[r].pc = "done" /\ inquiries' # inquiries)
         => Allowed(requests[r].user.id, requests[r].id)]_vars

(***************************************************************************)
(* C15  getInquiryById, updateInquiry and deleteInquiry answer 404 on an   *)
(* id that does not exist and 403 on an existing inquiry the subject is    *)
(* denied, in both cases leaving the inquiries unchanged; existence is     *)
(* checked first, so the two answers tell a denied subject which is which. *)
(***************************************************************************)
C15_MissingBeforeDenied ==
  [][(resp'.op \in {"getInquiryById", "updateInquiry", "deleteInquiry"} /\ resp'.code # 401) =>
       /\ resp'.id \notin DOMAIN inquiries => (resp'.code = 404 /\ inquiries' = inquiries)
       /\ (resp'.id \in DOMAIN inquiries /\ ~Allowed(resp'.user, resp'.id)) =>
            (resp'.code = 403 /\ inquiries' = inquiries)]_vars

\* a subject who was refused an inquiry with 403 is answered 404 once it is deleted
C15_Witness ==
  /\ resp.op = "getInquiryById" /\ resp.code = 404
  /\ users[resp.user].role # "admin"
  /\ resp.id \notin DOMAIN inquiries

(***************************************************************************)
(* C16  getFollowUpList, getFollowUpById and getInquiryFollowUps return a  *)
(* subject follow-up records only of inquiries the point decision allows   *)
(* the subject.                                                            *)
(***************************************************************************)
C16_FollowUpsOfAllowedInquiries ==
  (resp.op \in {"getFollowUpList", "getFollowUpById", "getInquiryFollowUps"} /\ resp.code = 200)
    => \A f \in resp.result : Allowed(resp.user, followUps[f].inquiryId)

(***************************************************************************)
(* C17  For a manager with department d the dashboard is computed only     *)
(* from inquiries whose departmentId is d, whatever departmentId the query *)
(* string carries.                                                         *)
(***************************************************************************)
C17_ManagerDashboardOwnDepartment ==
  (Answered("getDashboardData") /\ RespRole = "manager"
     /\ users[resp.user].departmentId # NULL) =>
    \A f \in DOMAIN resp.figures :
      \A id \in resp.figures[f] : inquiries[id].departmentId = users[resp.user].departmentId

(***************************************************************************)
(* C18  batchUpdateInquiries is all-or-nothing: with an id that does not   *)
(* exist, an inquiry the subject is denied, or an action other than        *)
(* assign, updateStatus and delete, the call fails with 400 or 403 and no  *)
(* inquiry is modified or deleted.                                         *)
(***************************************************************************)
C18_BatchAllOrNothing ==
  [][\A u \in UserIds, ids \in BatchArrays, c \in BatchBodies :
       (/\ authOk(u)
        /\ \/ c.action \notin {"assign", "updateStatus", "delete"}
           \/ \E i \in DOMAIN ids : ids[i] \notin DOMAIN inquiries
           \/ \E i \in DOMAIN ids : ids[i] \in DOMAIN inquiries /\ ~Allowed(u, ids[i])
        /\ BatchUpdateInquiries(u, ids, c.action, c.data))
       => (resp'.code \in {400, 403} /\ inquiries' = inquiries /\ followUps' = followUps)]_vars

\* a batch is refused although the subject is allowed one of the two stored inquiries
C18_Witness ==
  /\ resp.op = "batchUpdateInquiries" /\ resp.code = 403
  /\ \E i, j \in DOMAIN inquiries : Allowed(resp.user, i) /\ ~Allowed(resp.user, j)

(***************************************************************************)
(* C20  createdBy is immutable: no update, batch or follow-up changes the  *)
(* createdBy of an inquiry, so a sales subject who created an inquiry is   *)
(* allowed on it for as long as it exists, whoever it is assigned to.      *)
(***************************************************************************)
C20_CreatedByImmutable ==
  /\ [][\A id \in DOMAIN inquiries \cap DOMAIN inquiries' :
          inquiries'[id].createdBy = inquiries[id].createdBy]_vars
  /\ [](\A id \in DOMAIN inquiries :
          users[inquiries[id].createdBy].role = "sales" => Allowed(inquiries[id].createdBy, id))

\* a sales creator's inquiry has been reassigned to the other user by a request whose body
\* asked for another creator
C20_Witness ==
  /\ resp.op = "updateInquiry" /\ resp.code = 200
  /\ \E id \in DOMAIN inquiries :
       /\ users[inquiries[id].createdBy].role = "sales"
       /\ inquiries[id].assignedTo \notin {NULL, inquiries[id].createdBy}
       /\ inquiries[id].status = "quoted"

(***************************************************************************)
(* C21  A follow-up record is modified or deleted only by its creator:     *)
(* updateFollowUp and deleteFollowUp by any other subject, admin included, *)
(* fail with 403 and leave the record and its inquiry unchanged; on an id  *)
(* that does not exist they fail with 404.                                 *)
(***************************************************************************)
C21_OnlyCreatorChangesRecord ==
  [][\A u \in UserIds, f \in 1..MaxFollowUpId, r \in AllFollowUpResults :
       (authOk(u) /\ (UpdateFollowUp(u, f, r) \/ DeleteFollowUp(u, f)))
       => IF f \notin DOMAIN followUps
          THEN resp'.code = 404 /\ followUps' = followUps /\ inquiries' = inquiries
          ELSE followUps[f].createdBy # u
               => resp'.code = 403 /\ followUps' = followUps /\ inquiries' = inquiries]_vars

\* an admin was refused the deletion of a record somebody else created
C21_Witness ==
  /\ resp.op = "deleteFollowUp" /\ resp.code = 403
  /\ users[resp.user].role = "admin"
  /\ resp.id \in DOMAIN followUps /\ followUps[resp.id].createdBy # resp.user

(***************************************************************************)
(* C22  The follow-up result drives the inquiry status: after a            *)
(* createFollowUp or updateFollowUp with result r the inquiry is contacted *)
(* for interested, quoted for quoted, negotiating for negotiating, won for *)
(* closed and lost for not_interested, whatever it was before; with        *)
(* no_answer, need_more_info or no result its status is unchanged.         *)
(***************************************************************************)
C22_ResultDrivesStatus ==
  [][\A u \in UserIds, id \in FollowedIds, f \in 1..MaxFollowUpId, r \in AllFollowUpResults :
       (/\ \/ CreateFollowUp(u, id, r)
           \/ f \in DOMAIN followUps /\ id = followUps[f].inquiryId /\ UpdateFollowUp(u, f, r)
        /\ resp'.code \in {200, 201})
       => inquiries'[id].status =
            CASE r = "interested" -> "contacted"
              [] r = "quoted" -> "quoted"
              [] r = "negotiating" -> "negotiating"
              [] r = "closed" -> "won"
              [] r = "not_interested" -> "lost"
              [] OTHER -> inquiries[id].status]_vars

\* a record's result was changed to not_interested and its inquiry is lost
C22_Witness ==
  /\ resp.op = "updateFollowUp" /\ resp.code = 200
  /\ resp.id \in DOMAIN followUps /\ followUps[resp.id].result = "not_interested"
  /\ inquiries[followUps[resp.id].inquiryId].status = "lost"

(***************************************************************************)
(* C23  The pending follow-up list is role-scoped: an admin gets every     *)
(* pending record, a manager (with or without a department) only records   *)
(* whose inquiry is in the manager's department, every other role only     *)
(* the records the subject created.                                        *)
(***************************************************************************)
C23_PendingListRoleScoped ==
  Answered("getPendingFollowUps")
  => LET pending == {f \in DOMAIN followUps : PendingWhere(followUps[f])}
         own == users[resp.user].departmentId
     IN resp.result =
          CASE RespRole = "admin" -> pending
            [] RespRole = "manager" ->
                 {f \in pending : inquiries[followUps[f].inquiryId].departmentId = own}
            [] OTHER -> {f \in pending : followUps[f].createdBy = resp.user}

(***************************************************************************)
(* C24  An admin who asks GET /statistics/inquiries for userId = u gets    *)
(* statistics restricted to the inquiries of user u, and for               *)
(* departmentId = d statistics restricted to department d; a manager's     *)
(* userId is honoured only for a user of the manager's own department.     *)
(***************************************************************************)
C24_AdminStatisticsTargets ==
  /\ (Answered("getInquiryStatistics") /\ RespRole = "admin")
     => \A f \in DOMAIN resp.figures :
          /\ Truthy(resp.query.userId) => resp.figures[f] \subseteq Owned(resp.query.userId)
          /\ Truthy(resp.query.departmentId)
             => \A id \in resp.figures[f] : inquiries[id].departmentId = resp.query.departmentId
  /\ \A u \in ScopeSubjects, q \in StatQueries :
       (authOk(u) /\ users[u].role = "manager" /\ Truthy(StatisticsParams(u, q).userId))
       => (q.userId \in DOMAIN users /\ users[q.userId].departmentId = users[u].departmentId)

\* the departments above d: its parent, the parent's parent, ... (at most n steps up)
RECURSIVE Above(_, _)
Above(d, n) ==
  IF n = 0 \/ d \notin DOMAIN departments \/ ~Truthy(departments[d].parentId) THEN {}
  ELSE {departments[d].parentId} \cup Above(departments[d].parentId, n - 1)

Ancestors(d) == Above(d, Cardinality(DOMAIN departments))

\* the admin's updateDepartment names as parent the department itself or one below it
CircularRequest(a, id, p) ==
  /\ requireAdmin(a) = 200
  /\ id \in DOMAIN departments /\ p \in DOMAIN departments
  /\ (p = id \/ id \in Ancestors(p))

(***************************************************************************)
(* C25  The parent relation of departments stays acyclic: from a forest no *)
(* sequence of createDepartment, updateDepartment and deleteDepartment     *)
(* makes a department its own ancestor; updateDepartment rejects with 400  *)
(* a parentId equal to the department or to one of its descendants and     *)
(* leaves the tree unchanged.                                              *)
(***************************************************************************)
C25_TreeStaysAcyclic ==
  /\ [](\A d \in DOMAIN departments : d \notin Ancestors(d))
  /\ [][\A name \in {""} \cup DepartmentNames, p \in ParentIds :
          (/\ resp'.op = "updateDepartment"
           /\ CircularRequest(resp'.user, resp'.id, p)
           /\ UpdateDepartment(resp'.user, resp'.id, name, p))
          => (resp'.code = 400 /\ departments' = departments)]_vars

(***************************************************************************)
(* C25 as it holds: the tree stays acyclic, and updateDepartment rejects a *)
(* parentId equal to the department or to one of its descendants and       *)
(* leaves the tree unchanged, with 409 when the request also carries a new *)
(* name that a department under that parent already has, with 400         *)
(* otherwise.                                                              *)
(***************************************************************************)
C25_TreeStaysAcyclicNameFirst ==
  /\ [](\A d \in DOMAIN departments : d \notin Ancestors(d))
  /\ [][\A name \in {""} \cup DepartmentNames, p \in ParentIds :
          (/\ resp'.op = "updateDepartment"
           /\ CircularRequest(resp'.user, resp'.id, p)
           /\ UpdateDepartment(resp'.user, resp'.id, name, p))
          => /\ departments' = departments
             /\ resp'.code =
                  IF /\ name \notin {"", departments[resp'.id].name}
                     /\ \E d \in DOMAIN departments \ {resp'.id} :
                          departments[d].name = name /\ departments[d].parentId = p
                  THEN 409 ELSE 400]_vars

\* a department was refused one of its descendants as parent while another department moved
C25_Witness ==
  /\ resp.op = "updateDepartment" /\ resp.code = 400
  /\ resp.id \in DOMAIN departments
  /\ \E p \in DOMAIN departments : p # resp.id /\ resp.id \in Ancestors(p)
  /\ departments # NamedDepartmentTree

\* the users who created or are assigned an inquiry
Owners ==
  {u \in DOMAIN users :
     \E id \in DOMAIN inquiries : inquiries[id].assignedTo = u \/ inquiries[id].createdBy = u}

(***************************************************************************)
(* C26  Ownership references stay valid: after any sequence of             *)
(* createInquiry, updateInquiry, batchUpdateInquiries and deleteUser every *)
(* inquiry's createdBy and every assignedTo that is not null is the id of  *)
(* an existing user; deleteUser on a user who created or is assigned an    *)
(* inquiry fails with 400 and deletes nothing.                             *)
(***************************************************************************)
C26_OwnersExist ==
  /\ [](\A id \in DOMAIN inquiries :
          /\ inquiries[id].createdBy \in DOMAIN users
          /\ inquiries[id].assignedTo # NULL => inquiries[id].assignedTo \in DOMAIN users)
  /\ [][\A t \in OwnerIds :
          (/\ resp'.op = "deleteUser"
           /\ requireAdmin(resp'.user) = 200
           /\ t \in Owners
           /\ DeleteUser(resp'.user, t))
          => (resp'.code = 400 /\ users' = users /\ inquiries' = inquiries)]_vars

\* the admin was refused the deletion of a user with inquiries after another user was deleted
C26_Witness ==
  /\ resp.op = "deleteUser" /\ resp.code = 400
  /\ resp.id \in Owners
  /\ DOMAIN users # OwnerIds
  /\ \E id \in DOMAIN inquiries : inquiries[id].assignedTo # NULL

(***************************************************************************)
(* C28  A deactivated or deleted user is locked out at once: every request *)
(* that reaches authMiddleware with a valid token of a user whose status   *)
(* is not active, or who no longer exists, is answered 401 and reaches no  *)
(* route handler, however long the token lives.                            *)
(***************************************************************************)
C28_LockedOutAtOnce ==
  [][\A tok \in tokens, id \in FollowedIds :
       (/\ tok.userId \notin DOMAIN users \/ users[tok.userId].status # "active"
        /\ TokenGetInquiryById(tok, id) \/ TokenGetInquiryList(tok, NoQuery))
       => (resp'.code = 401 /\ resp'.result = {} /\ UNCHANGED db)]_vars

\* a request with the token of a deleted user was answered 401
C28_Witness ==
  /\ resp.op = "getInquiryById" /\ resp.code = 401
  /\ resp.user \notin DOMAIN users
  /\ \E tok \in tokens : tok.userId = resp.user

\* the key is blocked and its hour has not passed
Blocked(key) ==
  /\ key \in DOMAIN suspiciousActivities
  /\ suspiciousActivities[key].blocked
  /\ now - suspiciousActivities[key].lastAttempt < BlockDuration

(***************************************************************************)
(* C27  Suspicious-activity blocking: a key is blocked when its 10th       *)
(* suspicious request is recorded; from then every request of the key is   *)
(* answered 403 and not passed on until one hour after that 10th request   *)
(* (requests made while blocked do not extend the block); the first        *)
(* request after the hour deletes the record, is passed on, and counting   *)
(* starts again from zero.                                                 *)
(***************************************************************************)
C27_BlockedForOneHour ==
  /\ [](\A k \in DOMAIN suspiciousActivities :
          /\ suspiciousActivities[k].blocked <=> suspiciousActivities[k].attempts = 10
          /\ suspiciousActivities[k].attempts <= 10)
  /\ [][\A k \in ClientKeys, s \in BOOLEAN :
          SuspiciousActivityMiddleware(k, s)
          => IF Blocked(k)
             THEN resp'.code = 403 /\ suspiciousActivities' = suspiciousActivities
             ELSE /\ resp'.code = 200
                  /\ (k \in DOMAIN suspiciousActivities /\ suspiciousActivities[k].blocked)
                     => IF s THEN /\ suspiciousActivities'[k].attempts = 1
                                  /\ ~suspiciousActivities'[k].blocked
                        ELSE k \notin DOMAIN suspiciousActivities'
                  /\ (k \in DOMAIN suspiciousActivities' /\ suspiciousActivities'[k].blocked)
                     => suspiciousActivities'[k].lastAttempt = now]_vars

\* a request of a blocked key is refused in the last half hour of its block
C27_Witness ==
  /\ resp.op = "suspiciousActivity" /\ resp.code = 403
  /\ Blocked(resp.id)
  /\ now - suspiciousActivities[resp.id].lastAttempt = BlockDuration - 1

\* the calls of the given operation that have returned or thrown
Finished(op) == {r \in DOMAIN requests : requests[r].op = op /\ requests[r].pc = "done"}

(***************************************************************************)
(* C29  AI analysis record lifecycle: performAnalysis creates one record   *)
(* in status pending, and when the call finishes that record is completed  *)
(* if the provider call succeeded, or failed with the error rethrown; no   *)
(* record is left pending by a finished call, and a record never leaves    *)
(* completed or failed.                                                    *)
(***************************************************************************)
C29_AnalysisRecordLifecycle ==
  /\ [](\A r \in Finished("performAnalysis") :
          requests[r].outcome # 404
          => /\ requests[r].record \in DOMAIN aiAnalysisRecords
             /\ aiAnalysisRecords[requests[r].record].status =
                  IF requests[r].outcome = 200 THEN "completed" ELSE "failed")
  /\ [][\A a \in DOMAIN aiAnalysisRecords :
          aiAnalysisRecords[a].status \in {"completed", "failed"}
          => /\ a \in DOMAIN aiAnalysisRecords'
             /\ aiAnalysisRecords'[a].status = aiAnalysisRecords[a].status]_vars

(***************************************************************************)
(* C30  testConnection uses a supplied API key only temporarily: in every  *)
(* interleaving of testConnection and performAnalysis calls, once all      *)
(* testConnection calls have finished the configured key of each provider  *)
(* is what it was before the calls, and no performAnalysis call is made    *)
(* with a key that was supplied to testConnection.                         *)
(***************************************************************************)
C30_SuppliedKeyIsTemporary ==
  /\ (\A r \in DOMAIN requests : requests[r].op = "testConnection" => requests[r].pc = "done")
     => \A p \in AiProviders : aiConfig[p].apiKey = EnvKey
  /\ \A r \in DOMAIN requests :
       requests[r].op = "performAnalysis" => requests[r].usedKey \in {"", EnvKey}

====
